---- MODULE Spec2Model ----
(***************************************************************************)
(* Verification model of the MCP orchestrator backend:                     *)
(*   - MCPClient (lib/mcp-sdk.ts): newline framing of a child process's    *)
(*     stdout, request/reply correlation, request timeout, disconnect;     *)
(*   - MCPServerManager (services/server-manager.ts): backend lifecycle;   *)
(*   - MCPProxy (services/mcp-proxy.ts): tool routing and invocation;      *)
(*   - EndpointManager (services/endpoint-manager.ts): authentication and  *)
(*     fixed-window rate limiting of gateway requests.                     *)
(* Each subsystem has its own specification over a shared variable list;   *)
(* a specification leaves the variables of the other subsystems untouched. *)
(***************************************************************************)
EXTENDS Integers, Sequences, FiniteSets, TLC

VARIABLES
  \* ---- stdout framing (MCPClient.setupStdioHandlers) ----
  stream,        \* the bytes the child process writes to stdout
  readPos,       \* number of bytes already delivered in 'data' events
  buffer,        \* closure variable `buffer`: decoded text not yet terminated
  handled,       \* messages handed to handleMessage, in order
  \* ---- gateway admission (EndpointManager) ----
  gwNow,          \* Date.now(), in milliseconds
  endpoint,       \* the EndpointConfig stored in EndpointManager.endpoints
  rateLimitStore, \* EndpointManager.rateLimitStore: key -> {count, resetTime}
  analytics,      \* EndpointManager.analytics entry of the endpoint
  reqWindow,      \* observer: per key, the fixed window the requests fall in
  lastReq,        \* observer: the last request handled and its outcome
  reqCount,       \* number of requests handled so far
  \* ---- authenticateRequest applied to one request ----
  authInput,      \* the AuthConfig and the request it is applied to
  authResult,     \* the {success, error} it returned
  \* ---- one process backend: MCPServerInstance and its MCPClient ----
  status,          \* instance.status
  inServers,       \* MCPServerManager.servers has the instance
  hasConfig,       \* MCPServerManager.configs has the config
  proc,            \* the child process: "spawning", "alive", "failed", "exited"
  killed,          \* process.killed
  signals,         \* signals sent to the child process, in order
  client,          \* instance.client is set
  isInitialized,   \* MCPClient.isInitialized
  messageId,       \* MCPClient.messageId
  pendingRequests, \* MCPClient.pendingRequests (its keys)
  timers,          \* per message id: its request timer is armed
  killTimers,      \* per stopServer call: its force-kill timer is armed
  notifications,   \* 'notifications/cancelled' lines written to stdin
  calls,           \* per message id: what was sent and how its promise was settled
  ops,             \* the manager-level calls in progress and their results
  stopAwaiting,    \* stopServer calls suspended at `await client.disconnect()`
  stopCalls,       \* number of stopServer calls made
  stopReturned,    \* number of stopServer calls that have returned
  \* ---- MCPProxy.callTool over the backends of MCPServerManager ----
  backends,        \* per server id: its config and its runtime instance
  invoke,          \* the MCPProxy.callTool call in progress
  \* ---- the mcp-endpoints router: one request after the other ----
  route,           \* the request being dispatched and the tallies of outcomes
  \* ---- MiddlewareEngine ----
  middlewares,     \* MiddlewareEngine.middlewares: the Map, in insertion order
  mwOps,           \* number of addMiddleware / removeMiddleware calls made
  pipeline,        \* the processTools / processRequest / processResponse call
  \* ---- NamespaceManager ----
  namespaces,      \* NamespaceManager.namespaces: the entry of `default`
  servers,         \* NamespaceManager.servers: the Map, in insertion order
  nsOps,           \* number of calls that changed the NamespaceManager
  aggregation,     \* observer: the last aggregateNamespaceTools call
  \* ---- the service instances of routes/trpc.ts and routes/mcp-endpoints.ts ----
  adminServers,    \* routes/trpc.ts: `servers` and its NamespaceManager.servers
  adminEndpoints,  \* routes/trpc.ts: endpoints of its EndpointManager
  routerEndpoints, \* routes/mcp-endpoints.ts: endpoints of its EndpointManager
  routerBackends,  \* routes/mcp-endpoints.ts: running backends of its MCPProxy
  reply,           \* observer: the last request POSTed to the gateway and its response
  \* ---- one connection to an endpoint of the router ----
  sse,             \* the connection: its route, what was written, the keep-alive timer
  sseTicks,        \* number of steps of time taken
  \* ---- MCPServerManager: the registry and its lifecycle calls ----
  mgrServers,      \* MCPServerManager.servers: id -> instance, in insertion order
  mgrConfigs,      \* MCPServerManager.configs: id -> config, in insertion order
  instances,       \* every MCPServerInstance created so far, with its process
  mgrCalls,        \* the createServer / stopServer / restartServer calls under way
  uuids,           \* number of ids uuidv4() has generated
  mgrOps,          \* number of calls made
  lastCall,        \* observer: the call that returned or threw last
  lastEvent,       \* observer: the last error event of a backend
  \* ---- MCPServerManager.getServerByTool ----
  mgrLookup,       \* the registered backends and one getServerByTool call on them
  \* ---- NamespaceManager: the namespace table and its administration ----
  nsTable,         \* NamespaceManager.namespaces: id -> config, in insertion order
  regServers,      \* NamespaceManager.servers: id -> config
  regMiddlewares,  \* NamespaceManager.middlewares: id -> config
  nsUuids,         \* number of ids createNamespace has generated
  adminOps,        \* number of calls made
  lastAdmin,       \* observer: the last call, whether it threw and what it changed
  \* ---- EndpointManager: the endpoint table and its administration ----
  epTable,         \* EndpointManager.endpoints: id -> config, in insertion order
  epAnalytics,     \* EndpointManager.analytics: the ids holding a record
  epUuids,         \* number of ids createEndpoint has generated
  epOps,           \* number of calls made
  lastEp,          \* observer: the last call, whether it threw and what it changed
  epRequest        \* a gateway request inside createEndpointMiddleware

frameVars == <<stream, readPos, buffer, handled>>
gwVars == <<gwNow, endpoint, rateLimitStore, analytics, reqWindow, lastReq, reqCount>>

authVars == <<authInput, authResult>>

clientVars == <<status, inServers, hasConfig, proc, killed, signals, client, isInitialized,
                messageId, pendingRequests, timers, killTimers, notifications, calls, ops,
                stopAwaiting, stopCalls, stopReturned>>

proxyVars == <<backends, invoke>>

routeVars == <<route>>

mwVars == <<middlewares, mwOps, pipeline>>

nsVars == <<namespaces, servers, nsOps, aggregation>>

wiringVars == <<adminServers, adminEndpoints, routerEndpoints, routerBackends, reply>>

sseVars == <<sse, sseTicks>>

regVars == <<mgrServers, mgrConfigs, instances, mgrCalls, uuids, mgrOps, lastCall, lastEvent>>

ownerVars == <<mgrLookup>>

nsAdminVars == <<nsTable, regServers, regMiddlewares, nsUuids, adminOps, lastAdmin>>

epAdminVars == <<epTable, epAnalytics, epUuids, epOps, lastEp, epRequest>>

vars == <<frameVars, gwVars, authVars, clientVars, proxyVars, routeVars, mwVars, nsVars, wiringVars, sseVars, regVars, ownerVars, nsAdminVars, epAdminVars>>

(***************************************************************************)
(* Generic helpers                                                         *)
(***************************************************************************)
RECURSIVE SeqsUpTo(_, _)
SeqsUpTo(S, n) ==
  IF n = 0 THEN {<<>>}
  ELSE LET shorter == SeqsUpTo(S, n - 1)
       IN shorter \cup {Append(s, x) : s \in {t \in shorter : Len(t) = n - 1}, x \in S}

(***************************************************************************)
(* Gateway admission: EndpointManager.createEndpointMiddleware with        *)
(* authenticateRequest, checkRateLimit and recordRequest.                  *)
(***************************************************************************)
MaxGwTicks == 3
MaxRequests == 4
MaxLimit == 2

MsPerSecond == 1000

Ips == {"ip1", "ip2"}
EndpointId == "e1"
EndpointPath == "/gw/d"
Paths == {EndpointPath, "/other"}
Windows == {1, 2}

NoList == [present |-> FALSE, items |-> {}]
ListOf(S) == [present |-> TRUE, items |-> S]

\* AuthConfig values: for every auth type, the credential set of that type
\* absent or configured, and each IP list absent, empty or naming ip1.
IpLists == {NoList, ListOf({}), ListOf({"ip1"})}

CredentialChoices(type) ==
  CASE type = "api_key" -> {[apiKeys |-> l, bearerTokens |-> NoList, basicAuth |-> NoList]
                              : l \in {NoList, ListOf({"k1"})}}
    [] type = "bearer"  -> {[apiKeys |-> NoList, bearerTokens |-> l, basicAuth |-> NoList]
                              : l \in {NoList, ListOf({"t1"})}}
    [] type = "basic"   -> {[apiKeys |-> NoList, bearerTokens |-> NoList, basicAuth |-> l]
                              : l \in {NoList, ListOf({<<"u1", "p1">>})}}
    [] OTHER            -> {[apiKeys |-> NoList, bearerTokens |-> NoList, basicAuth |-> NoList]}

AuthTypes == {"none", "api_key", "bearer", "basic", "oauth2"}

AuthConfigs ==
  UNION {{[type |-> t, apiKeys |-> c.apiKeys, bearerTokens |-> c.bearerTokens,
           basicAuth |-> c.basicAuth, whitelist |-> w, blacklist |-> b]
            : c \in CredentialChoices(t), w \in IpLists, b \in IpLists}
         : t \in AuthTypes}

NoRateLimit == [present |-> FALSE, enabled |-> FALSE, requests |-> 0, window |-> 0]

RateLimitConfigs ==
  {NoRateLimit}
    \cup {[present |-> TRUE, enabled |-> FALSE, requests |-> 1, window |-> 1]}
    \cup {[present |-> TRUE, enabled |-> TRUE, requests |-> l, window |-> w]
            : l \in 0..MaxLimit, w \in Windows}

\* Request headers.  x-api-key: "" when the header is missing or empty.
\* authorization: scheme "" when the header is missing; for Bearer the text
\* after "Bearer "; for Basic the base64-decoded text after "Basic ", given
\* as its colon-separated segments.
NoAuthorization == [scheme |-> "", token |-> "", segments |-> <<>>]
Bearer(t) == [scheme |-> "Bearer", token |-> t, segments |-> <<>>]
Basic(segs) == [scheme |-> "Basic", token |-> "", segments |-> segs]

HeaderChoices ==
  {[apiKey |-> k, authorization |-> NoAuthorization] : k \in {"", "k1", "kx"}}
    \cup {[apiKey |-> "", authorization |-> a]
            : a \in {Bearer("t1"), Bearer("tx"), Basic(<<"u1", "p1">>),
                     Basic(<<"u1", "px">>), Basic(<<"u1", "p1", "x">>), Basic(<<"u1">>)}}

Requests ==
  {[path |-> p, ip |-> i, headers |-> h] : p \in Paths, i \in Ips, h \in HeaderChoices}

\* The requests and endpoint policies of the admission model: with and
\* without a valid API key, against an open and an API-key endpoint.
GatewayRequests ==
  {r \in Requests : r.headers.authorization = NoAuthorization /\ r.headers.apiKey # "kx"}

GatewayAuthConfigs ==
  {a \in AuthConfigs : /\ ~a.whitelist.present /\ ~a.blacklist.present
                       /\ \/ a.type = "none"
                          \/ a.type = "api_key" /\ a.apiKeys.present}

Includes(list, x) == list.present /\ x \in list.items

\* The JavaScript value undefined.
Undefined == "<undefined>"

\* const [username, password] = credentials.split(':')
SplitCredentials(segments) ==
  [username |-> IF Len(segments) >= 1 THEN segments[1] ELSE "",
   password |-> IF Len(segments) >= 2 THEN segments[2] ELSE Undefined]

AuthOk == [success |-> TRUE, error |-> ""]
AuthFail(msg) == [success |-> FALSE, error |-> msg]

\* The type-specific switch of authenticateRequest.
TypeSpecificCheck(req, auth) ==
  CASE auth.type = "api_key" ->
         IF req.headers.apiKey = "" \/ ~Includes(auth.apiKeys, req.headers.apiKey)
         THEN AuthFail("Invalid API key") ELSE AuthOk
    [] auth.type = "bearer" ->
         IF req.headers.authorization.scheme # "Bearer"
         THEN AuthFail("Bearer token required")
         ELSE IF ~Includes(auth.bearerTokens, req.headers.authorization.token)
              THEN AuthFail("Invalid bearer token") ELSE AuthOk
    [] auth.type = "basic" ->
         IF req.headers.authorization.scheme # "Basic"
         THEN AuthFail("Basic auth required")
         ELSE LET c == SplitCredentials(req.headers.authorization.segments)
              IN IF ~Includes(auth.basicAuth, <<c.username, c.password>>)
                 THEN AuthFail("Invalid credentials") ELSE AuthOk
    [] OTHER -> AuthFail("Unsupported auth type")

\* if (auth.whitelist && !auth.whitelist.includes(clientIp)): an array, even
\* an empty one, is truthy.
WhitelistRejects(auth, ip) == auth.whitelist.present /\ ip \notin auth.whitelist.items

BlacklistRejects(auth, ip) == Includes(auth.blacklist, ip)

authenticateRequest(req, auth) ==
  IF auth.type = "none" THEN AuthOk
  ELSE IF BlacklistRejects(auth, req.ip) THEN AuthFail("IP address blacklisted")
  ELSE IF WhitelistRejects(auth, req.ip) THEN AuthFail("IP address not whitelisted")
  ELSE TypeSpecificCheck(req, auth)

\* Rate limiting.  rateLimitStore maps `${endpoint.id}:${req.ip}` to an entry.
RateKeys == {<<EndpointId, ip>> : ip \in Ips}
RateKey(id, ip) == <<id, ip>>
NoEntry == [present |-> FALSE, count |-> 0, resetTime |-> 0]
Entry(c, r) == [present |-> TRUE, count |-> c, resetTime |-> r]

\* checkRateLimit comparing the counter with > instead of >=.
checkRateLimit_OffByOne(store, key, now, rateLimit) ==
  IF ~(rateLimit.present /\ rateLimit.enabled)
  THEN [allowed |-> TRUE, told |-> FALSE, resetTime |-> 0, store |-> store]
  ELSE LET windowMs == rateLimit.window * MsPerSecond
           current  == store[key]
       IN IF ~current.present \/ now > current.resetTime
          THEN [allowed |-> TRUE, told |-> FALSE, resetTime |-> 0,
                store |-> [store EXCEPT ![key] = Entry(1, now + windowMs)]]
          ELSE IF current.count > rateLimit.requests
               THEN [allowed |-> FALSE, told |-> TRUE, resetTime |-> current.resetTime,
                     store |-> store]
               ELSE [allowed |-> TRUE, told |-> FALSE, resetTime |-> 0,
                     store |-> [store EXCEPT ![key] = Entry(current.count + 1, current.resetTime)]]

\* checkRateLimit counting the requests it rejects.
checkRateLimit_CountsRejected(store, key, now, rateLimit) ==
  IF ~(rateLimit.present /\ rateLimit.enabled)
  THEN [allowed |-> TRUE, told |-> FALSE, resetTime |-> 0, store |-> store]
  ELSE LET windowMs == rateLimit.window * MsPerSecond
           current  == store[key]
       IN IF ~current.present \/ now > current.resetTime
          THEN [allowed |-> TRUE, told |-> FALSE, resetTime |-> 0,
                store |-> [store EXCEPT ![key] = Entry(1, now + windowMs)]]
          ELSE [allowed |-> current.count < rateLimit.requests,
                told |-> current.count >= rateLimit.requests,
                resetTime |-> IF current.count >= rateLimit.requests
                              THEN current.resetTime ELSE 0,
                store |-> [store EXCEPT ![key] = Entry(current.count + 1, current.resetTime)]]

\* checkRateLimit: the decision and the store it leaves behind.
checkRateLimit(store, key, now, rateLimit) ==
  IF ~(rateLimit.present /\ rateLimit.enabled)
  THEN [allowed |-> TRUE, told |-> FALSE, resetTime |-> 0, store |-> store]
  ELSE LET windowMs == rateLimit.window * MsPerSecond
           current  == store[key]
       IN IF ~current.present \/ now > current.resetTime
          THEN [allowed |-> TRUE, told |-> FALSE, resetTime |-> 0,
                store |-> [store EXCEPT ![key] = Entry(1, now + windowMs)]]
          ELSE IF current.count >= rateLimit.requests
               THEN [allowed |-> FALSE, told |-> TRUE, resetTime |-> current.resetTime,
                     store |-> store]
               ELSE [allowed |-> TRUE, told |-> FALSE, resetTime |-> 0,
                     store |-> [store EXCEPT ![key] = Entry(current.count + 1, current.resetTime)]]

\* recordRequest
recordRequest(a, success, responseTime) ==
  LET total == a.totalRequests + 1
  IN [totalRequests |-> total,
      successfulRequests |-> a.successfulRequests + (IF success THEN 1 ELSE 0),
      failedRequests |-> a.failedRequests + (IF success THEN 0 ELSE 1),
      averageResponseTime |-> (a.averageResponseTime * (total - 1) + responseTime) \div total,
      lastRequestAt |-> gwNow]

\* applyCors: the CORS headers put on the response.
applyCors(cors) == IF cors.enabled THEN {"Access-Control-Allow-Origin"} ELSE {}

\* Observer of the fixed windows: a window of a key opens with the first
\* request that reaches the rate limiter when no window is open, and stays
\* open up to and including its reset time.
NoWindow == [open |-> FALSE, resetTime |-> 0, allowed |-> 0, denied |-> 0]
WindowOpenAt(w, now) == w.open /\ now <= w.resetTime

ObserveWindow(w, now, rateLimit, allowed) ==
  LET cur == IF WindowOpenAt(w, now) THEN w
             ELSE [open |-> TRUE, resetTime |-> now + rateLimit.window * MsPerSecond,
                   allowed |-> 0, denied |-> 0]
  IN [cur EXCEPT !.allowed = @ + (IF allowed THEN 1 ELSE 0),
                 !.denied = @ + (IF allowed THEN 0 ELSE 1)]

NoRequest ==
  [handled |-> FALSE, path |-> "", ip |-> "", at |-> 0, status |-> 0, error |-> "",
   limited |-> FALSE, told |-> FALSE, resetTime |-> 0, windowBefore |-> NoWindow,
   cors |-> {}]

\* The middleware returned by createEndpointMiddleware, for one request.
EndpointMiddlewareStep(req) ==
  /\ reqCount < MaxRequests
  /\ reqCount' = reqCount + 1
  /\ IF req.path # endpoint.path \/ ~endpoint.enabled
     THEN /\ lastReq' = [NoRequest EXCEPT !.handled = TRUE, !.path = req.path,
                                          !.ip = req.ip, !.at = gwNow, !.status = 404,
                                          !.error = "Endpoint not found or disabled"]
          /\ UNCHANGED <<endpoint, rateLimitStore, analytics, reqWindow>>
     ELSE LET auth == authenticateRequest(req, endpoint.auth)
              key  == RateKey(endpoint.id, req.ip)
              rl   == checkRateLimit(rateLimitStore, key, gwNow, endpoint.rateLimit)
              limiting == endpoint.rateLimit.present /\ endpoint.rateLimit.enabled
          IN /\ endpoint' = [endpoint EXCEPT !.lastAccessed = gwNow]
             /\ IF ~auth.success
                THEN /\ analytics' = recordRequest(analytics, FALSE, 0)
                     /\ lastReq' = [NoRequest EXCEPT !.handled = TRUE, !.path = req.path,
                                      !.ip = req.ip, !.at = gwNow, !.status = 401,
                                      !.error = auth.error]
                     /\ UNCHANGED <<rateLimitStore, reqWindow>>
                ELSE /\ rateLimitStore' = rl.store
                     /\ reqWindow' = IF limiting
                                     THEN [reqWindow EXCEPT ![key] =
                                             ObserveWindow(@, gwNow, endpoint.rateLimit, rl.allowed)]
                                     ELSE reqWindow
                     /\ analytics' = recordRequest(analytics, rl.allowed, 0)
                     /\ lastReq' = [handled |-> TRUE, path |-> req.path, ip |-> req.ip, at |-> gwNow,
                                    status |-> IF rl.allowed THEN 200 ELSE 429,
                                    error |-> IF rl.allowed THEN "" ELSE "Rate limit exceeded",
                                    limited |-> limiting, told |-> rl.told,
                                    resetTime |-> rl.resetTime,
                                    windowBefore |-> reqWindow[key],
                                    cors |-> IF rl.allowed THEN applyCors(endpoint.cors) ELSE {}]
  /\ UNCHANGED gwNow

\* A request handled by the middleware alone.
EndpointMiddleware(req) ==
  /\ EndpointMiddlewareStep(req)
  /\ UNCHANGED <<frameVars, authVars, clientVars, proxyVars, routeVars, mwVars, nsVars, wiringVars, sseVars, regVars, ownerVars, nsAdminVars, epAdminVars>>

\* Time passes between requests.
GwTick ==
  /\ gwNow < MaxGwTicks * MsPerSecond
  /\ gwNow' = gwNow + MsPerSecond
  /\ UNCHANGED <<endpoint, rateLimitStore, analytics, reqWindow, lastReq, reqCount,
                 frameVars, authVars, clientVars, proxyVars, routeVars, mwVars, nsVars, wiringVars, sseVars, regVars, ownerVars, nsAdminVars, epAdminVars>>

(***************************************************************************)
(* Stdout framing.  Text is a sequence of characters, the wire a sequence  *)
(* of bytes.  Characters: "{" and "}" delimit a JSON object, "a" is an     *)
(* ASCII character of its body, "u" a two-byte UTF-8 character of its      *)
(* body, "sp" white space, "nl" the line feed, "bad" U+FFFD.               *)
(* Bytes: the ASCII characters are one byte each, "u" is the lead byte     *)
(* "hi" followed by the continuation byte "lo".                            *)
(***************************************************************************)
MaxStreamChars == 4

WireChars == {"{", "}", "a", "u", "sp", "nl"}

\* UTF-8 encoding performed by the child process when it writes a line.
RECURSIVE Utf8Encode(_)
Utf8Encode(text) ==
  IF text = <<>> THEN <<>>
  ELSE (IF Head(text) = "u" THEN <<"hi", "lo">> ELSE <<Head(text)>>)
       \o Utf8Encode(Tail(text))

\* Buffer.prototype.toString(): UTF-8 decoding of one chunk on its own.  A
\* lead byte without its continuation byte and a continuation byte without
\* its lead byte each decode to U+FFFD.
RECURSIVE BufferToString(_)
BufferToString(bytes) ==
  IF bytes = <<>> THEN <<>>
  ELSE IF Head(bytes) = "hi"
       THEN IF Len(bytes) >= 2 /\ bytes[2] = "lo"
            THEN <<"u">> \o BufferToString(Tail(Tail(bytes)))
            ELSE <<"bad">> \o BufferToString(Tail(bytes))
       ELSE IF Head(bytes) = "lo"
            THEN <<"bad">> \o BufferToString(Tail(bytes))
            ELSE <<Head(bytes)>> \o BufferToString(Tail(bytes))

\* String.prototype.split('\n'): the pieces between line feeds; always at
\* least one piece, the last one being the text after the last line feed.
RECURSIVE SplitNl(_, _)
SplitNl(text, cur) ==
  IF text = <<>> THEN <<cur>>
  ELSE IF Head(text) = "nl"
       THEN <<cur>> \o SplitNl(Tail(text), <<>>)
       ELSE SplitNl(Tail(text), Append(cur, Head(text)))

\* String.prototype.trim()
RECURSIVE TrimLeft(_)
TrimLeft(text) ==
  IF text # <<>> /\ Head(text) = "sp" THEN TrimLeft(Tail(text)) ELSE text

RECURSIVE TrimRight(_)
TrimRight(text) ==
  IF text # <<>> /\ text[Len(text)] = "sp"
  THEN TrimRight(SubSeq(text, 1, Len(text) - 1))
  ELSE text

Trim(text) == TrimRight(TrimLeft(text))

\* JSON.parse succeeds on one object: "{", a body without braces or white
\* space, "}".  The parsed message is represented by its text.
JsonParses(text) ==
  /\ Len(text) >= 2
  /\ text[1] = "{"
  /\ text[Len(text)] = "}"
  /\ \A i \in 2..(Len(text) - 1) : text[i] \in {"a", "u", "bad"}

\* The for-loop over the complete lines of one 'data' event: the messages
\* passed to handleMessage, in order.
RECURSIVE MessagesOf(_)
MessagesOf(lines) ==
  IF lines = <<>> THEN <<>>
  ELSE LET line == Trim(Head(lines))
       IN (IF line # <<>> /\ JsonParses(line) THEN <<line>> ELSE <<>>)
          \o MessagesOf(Tail(lines))

\* lines.pop() || ''
PoppedRemainder(lines) == lines[Len(lines)]

CompleteLines(lines) == SubSeq(lines, 1, Len(lines) - 1)

\* stdout 'data' handler: one read event delivering the next n bytes.
OnStdoutData(n) ==
  /\ n \in 1..(Len(stream) - readPos)
  /\ LET data  == SubSeq(stream, readPos + 1, readPos + n)
         text  == buffer \o BufferToString(data)
         lines == SplitNl(text, <<>>)
     IN /\ buffer' = PoppedRemainder(lines)
        /\ handled' = handled \o MessagesOf(CompleteLines(lines))
  /\ readPos' = readPos + n
  /\ UNCHANGED <<stream, gwVars, authVars, clientVars, proxyVars, routeVars, mwVars, nsVars, wiringVars, sseVars, regVars, ownerVars, nsAdminVars, epAdminVars>>

\* The same handler run on the whole stream delivered in a single read.
OneReadMessages(bytes) ==
  MessagesOf(CompleteLines(SplitNl(BufferToString(bytes), <<>>)))

OneReadRemainder(bytes) ==
  PoppedRemainder(SplitNl(BufferToString(bytes), <<>>))

(***************************************************************************)
(* One process (STDIO) backend: the MCPServerInstance that                 *)
(* MCPServerManager.createServer registered, its child process and its     *)
(* MCPClient.  The handlers work on a record of the state and the actions  *)
(* commit the record they return.  A timer is armed by setTimeout and      *)
(* fires at some later point; the model keeps the order of events, not     *)
(* their dates.                                                            *)
(***************************************************************************)
MaxOps == 1
MaxStopCalls == 1

OpIds == 0..MaxOps
UserOps == 1..MaxOps
MsgIds == 1..(1 + 2 * MaxOps)
StopIds == 1..MaxStopCalls

NoCall == [method |-> "none", registered |-> FALSE, written |-> FALSE,
           settles |-> 0, outcome |-> "none", pendingAtStop |-> FALSE, beforeStop |-> FALSE]
NoOp == [kind |-> "none", phase |-> "idle", msg |-> 0, result |-> "none"]

Cur ==
  [status |-> status, inServers |-> inServers, hasConfig |-> hasConfig, proc |-> proc,
   killed |-> killed, signals |-> signals, client |-> client,
   isInitialized |-> isInitialized, messageId |-> messageId,
   pendingRequests |-> pendingRequests, timers |-> timers, killTimers |-> killTimers,
   notifications |-> notifications, calls |-> calls, ops |-> ops,
   stopAwaiting |-> stopAwaiting, stopCalls |-> stopCalls, stopReturned |-> stopReturned]

Commit(c) ==
  /\ status' = c.status
  /\ inServers' = c.inServers
  /\ hasConfig' = c.hasConfig
  /\ proc' = c.proc
  /\ killed' = c.killed
  /\ signals' = c.signals
  /\ client' = c.client
  /\ isInitialized' = c.isInitialized
  /\ messageId' = c.messageId
  /\ pendingRequests' = c.pendingRequests
  /\ timers' = c.timers
  /\ killTimers' = c.killTimers
  /\ notifications' = c.notifications
  /\ calls' = c.calls
  /\ ops' = c.ops
  /\ stopAwaiting' = c.stopAwaiting
  /\ stopCalls' = c.stopCalls
  /\ stopReturned' = c.stopReturned
  /\ UNCHANGED <<frameVars, gwVars, authVars, proxyVars, routeVars, mwVars, nsVars, wiringVars, sseVars, regVars, ownerVars, nsAdminVars, epAdminVars>>

\* The promise of message id is settled by a call of its resolve or reject;
\* a promise keeps its first settlement.
Settle(c, id, how) ==
  [c EXCEPT !.calls[id].settles = @ + 1,
            !.calls[id].outcome = IF @ = "pending" THEN how ELSE @]

AwaitingOps(c, id) ==
  {o \in OpIds : c.ops[o].msg = id /\ c.ops[o].phase \in {"init", "main"}}

Finish(c, o, result) ==
  [c EXCEPT !.ops[o].phase = "done", !.ops[o].result = result]

MainMethod(kind) == IF kind = "callTool" THEN "tools/call" ELSE "tools/list"

\* Continuation of the call awaiting message id, after its promise rejected:
\* the spawn handler's catch sets status 'error'; initialize() rethrows out
\* of getTools/callTool; the catch of getTools returns the fallback demo
\* tool and the catch of callTool returns the demo response.
ResumeRejected(c, id) ==
  IF AwaitingOps(c, id) = {} THEN c
  ELSE LET o  == CHOOSE x \in AwaitingOps(c, id) : TRUE
           op == c.ops[o]
       IN IF op.kind = "initialize"
          THEN [Finish(c, o, "threw") EXCEPT !.status = "error"]
          ELSE IF op.phase = "init"
               THEN Finish(c, o, "threw")
               ELSE Finish(c, o, IF op.kind = "callTool" THEN "demo" ELSE "fallback")

\* MCPClient.sendStdioMessage for call o; `throws` says whether stdin.write
\* throws.
sendStdioMessage(c, o, phase, method, throws) ==
  LET id == c.messageId
      c1 == [c EXCEPT !.messageId = id + 1,
                      !.pendingRequests = @ \cup {id},
                      !.timers[id] = TRUE,
                      !.calls[id] = [NoCall EXCEPT !.method = method, !.registered = TRUE,
                                                   !.outcome = "pending"],
                      !.ops[o].phase = phase,
                      !.ops[o].msg = id]
  IN IF throws
     THEN ResumeRejected(Settle([c1 EXCEPT !.pendingRequests = @ \ {id}], id, "write_failed"), id)
     ELSE [c1 EXCEPT !.calls[id].written = TRUE]

\* Continuation of the call awaiting message id, after its promise resolved.
ResumeResolved(c, id, throws) ==
  IF AwaitingOps(c, id) = {} THEN c
  ELSE LET o  == CHOOSE x \in AwaitingOps(c, id) : TRUE
           op == c.ops[o]
       IN IF op.kind = "initialize"
          THEN Finish([c EXCEPT !.isInitialized = TRUE], o, "value")
          ELSE IF op.phase = "init"
               THEN sendStdioMessage([c EXCEPT !.isInitialized = TRUE], o, "main",
                                     MainMethod(op.kind), throws)
               ELSE Finish(c, o, "value")

\* handleMessage that hands a reply without pending entry to the oldest
\* pending call.
handleMessage_AnyPending(c, id, isError, throws) ==
  LET to == IF id \in c.pendingRequests \/ c.pendingRequests = {} THEN id
            ELSE CHOOSE x \in c.pendingRequests : \A y \in c.pendingRequests : x <= y
  IN IF to \in c.pendingRequests
     THEN LET c1 == [c EXCEPT !.pendingRequests = @ \ {to}]
          IN IF isError
             THEN ResumeRejected(Settle(c1, to, "error_reply"), to)
             ELSE ResumeResolved(Settle(c1, to, "resolved"), to, throws)
     ELSE c

\* handleMessage that leaves the entry in the table.
handleMessage_KeepsEntry(c, id, isError, throws) ==
  IF id \in c.pendingRequests
  THEN IF isError
       THEN ResumeRejected(Settle(c, id, "error_reply"), id)
       ELSE ResumeResolved(Settle(c, id, "resolved"), id, throws)
  ELSE c

\* MCPClient.handleMessage for a reply carrying message id.
handleMessage(c, id, isError, throws) ==
  IF id \in c.pendingRequests
  THEN LET c1 == [c EXCEPT !.pendingRequests = @ \ {id}]
       IN IF isError
          THEN ResumeRejected(Settle(c1, id, "error_reply"), id)
          ELSE ResumeResolved(Settle(c1, id, "resolved"), id, throws)
  ELSE c

RECURSIVE RejectEach(_, _, _)
RejectEach(c, ids, how) ==
  IF ids = {} THEN c
  ELSE LET id == CHOOSE x \in ids : TRUE
       IN RejectEach(ResumeRejected(Settle(c, id, how), id), ids \ {id}, how)

\* MCPClient.rejectAllPending
rejectAllPending(c, how) ==
  [RejectEach(c, c.pendingRequests, how) EXCEPT !.pendingRequests = {}]

\* The timeout callback of message id.
onRequestTimeout(c, id) ==
  LET c1 == [c EXCEPT !.timers[id] = FALSE]
  IN IF id \in c1.pendingRequests
     THEN ResumeRejected(Settle([c1 EXCEPT !.pendingRequests = @ \ {id}], id, "timeout"), id)
     ELSE c1

\* disconnect that does not reject the pending calls.
disconnect_KeepsPending(c) ==
  LET c1 == [c EXCEPT !.isInitialized = FALSE]
  IN IF ~c1.killed THEN [c1 EXCEPT !.notifications = @ + 1] ELSE c1

\* MCPClient.disconnect (the client of a process backend)
disconnect(c) ==
  LET c1 == rejectAllPending([c EXCEPT !.isInitialized = FALSE], "disconnected")
  IN IF ~c1.killed THEN [c1 EXCEPT !.notifications = @ + 1] ELSE c1

\* process.kill(signal): the signal is sent, and process.killed set, only
\* while the child process exists.
kill(c, signal) ==
  IF c.proc \in {"spawning", "alive"}
  THEN [c EXCEPT !.killed = TRUE, !.signals = Append(@, signal)]
  ELSE c

\* 'spawn' event: the handler registered by createServer.
ProcSpawn ==
  /\ proc = "spawning"
  /\ \E throws \in BOOLEAN :
       LET c1 == [Cur EXCEPT !.proc = "alive", !.status = "running", !.client = TRUE,
                             !.ops[0].kind = "initialize"]
       IN Commit(sendStdioMessage(c1, 0, "main", "initialize", throws))

\* 'error' event of a process that could not be spawned.
ProcSpawnError ==
  /\ proc = "spawning"
  /\ Commit([Cur EXCEPT !.proc = "failed", !.status = "error"])

\* 'error' event of a running process: the handler of createServer, then
\* the handler of setupStdioHandlers.
ProcError ==
  /\ proc = "alive"
  /\ Commit(rejectAllPending([Cur EXCEPT !.status = "error"], "process_error"))

\* 'exit' event: the handler of createServer, then the handler of
\* setupStdioHandlers.
ProcExit ==
  /\ proc = "alive"
  /\ Commit(rejectAllPending([Cur EXCEPT !.proc = "exited", !.status = "stopped",
                                         !.inServers = FALSE], "process_exited"))

FreeOps == {o \in UserOps : ops[o].kind = "none"}

\* MCPServerManager.getTools / callTool reach MCPClient.getTools / callTool
\* of a running instance: up to the first await.
StartOp(kind) ==
  /\ inServers /\ status = "running" /\ client
  /\ FreeOps # {}
  /\ \E throws \in BOOLEAN :
       LET o  == CHOOSE x \in FreeOps : \A y \in FreeOps : x <= y
           c1 == [Cur EXCEPT !.ops[o].kind = kind]
       IN Commit(IF ~isInitialized
                 THEN sendStdioMessage(c1, o, "init", "initialize", throws)
                 ELSE sendStdioMessage(c1, o, "main", MainMethod(kind), throws))

\* Whether the stdin.write of the continuation of a reply can throw: there
\* is a write only when the reply ends the handshake of a getTools or
\* callTool call, which then sends its own request.
WriteChoices(id, isError) ==
  IF /\ id \in pendingRequests
     /\ ~isError
     /\ \E o \in AwaitingOps(Cur, id) : ops[o].kind # "initialize" /\ ops[o].phase = "init"
  THEN BOOLEAN
  ELSE {FALSE}

\* A reply to message id, a result or an error envelope, is read from
\* stdout and handed to handleMessage.  Replies can be late or repeated, and
\* can still be read from the pipe after the process has exited.
BackendReply(id, isError) ==
  /\ calls[id].written
  /\ proc \in {"alive", "exited"}
  /\ calls[id].settles <= 1
  /\ \E throws \in WriteChoices(id, isError) : Commit(handleMessage(Cur, id, isError, throws))

\* The setTimeout callback of sendStdioMessage for message id runs.  A
\* callback that finds no entry for its id does nothing; only the callbacks
\* that find their entry are steps of the model.
RequestTimeout(id) ==
  /\ timers[id]
  /\ id \in pendingRequests
  /\ Commit(onRequestTimeout(Cur, id))

\* MCPServerManager.stopServer up to `await instance.client.disconnect()`,
\* or to its end when the instance has no client.
StopServerBegin ==
  /\ stopCalls < MaxStopCalls
  /\ IF ~inServers
     THEN Commit([Cur EXCEPT !.stopCalls = @ + 1, !.stopReturned = @ + 1])
     ELSE LET k  == stopCalls + 1
              c0 == [Cur EXCEPT !.stopCalls = k,
                                !.calls = [id \in MsgIds |->
                                   [@[id] EXCEPT !.pendingAtStop = @ \/ id \in pendingRequests,
                                                 !.beforeStop = @ \/ calls[id].registered]]]
              c1 == [kill(c0, "SIGTERM") EXCEPT !.killTimers[k] = TRUE]
          IN IF client
             THEN Commit([disconnect(c1) EXCEPT !.stopAwaiting = @ + 1])
             ELSE Commit([c1 EXCEPT !.inServers = FALSE, !.hasConfig = FALSE,
                                    !.stopReturned = @ + 1])

\* stopServer after the await: the runtime entry and the config are released.
StopServerFinish ==
  /\ stopAwaiting > 0
  /\ Commit([Cur EXCEPT !.stopAwaiting = @ - 1, !.inServers = FALSE, !.hasConfig = FALSE,
                        !.stopReturned = @ + 1])

\* The force-kill timer of stopServer call k fires.
KillTimerFires(k) ==
  /\ killTimers[k]
  /\ LET c1 == [Cur EXCEPT !.killTimers[k] = FALSE]
     IN Commit(IF ~killed THEN kill(c1, "SIGKILL") ELSE c1)

\* authenticateRequest applied to the drawn request and policy.
Authenticate ==
  /\ ~authResult.done
  /\ authResult' = [done |-> TRUE, result |-> authenticateRequest(authInput.req, authInput.auth)]
  /\ UNCHANGED <<authInput, frameVars, gwVars, clientVars, proxyVars, routeVars, mwVars, nsVars, wiringVars, sseVars, regVars, ownerVars, nsAdminVars, epAdminVars>>

(***************************************************************************)
(* MCPProxy.callTool: routing one tool call over the backends              *)
(***************************************************************************)
\* Server ids, in the insertion order of MCPServerManager.configs.
ServerOrder == <<"s1", "s2">>

ServerIds == {ServerOrder[i] : i \in 1..Len(ServerOrder)}

\* The namespace of the call, and another one.
Namespace == "ns"

Namespaces == {Namespace, "other"}

\* The name of the tool MCPClient.getTools makes up when tools/list fails.
DemoTool(s) == "demo_tool_" \o s

\* Tool names a caller asks for: a backend tool and the made-up names.
ToolNames == {"t"} \cup {DemoTool(s) : s \in ServerIds}

\* How a request sent to a backend can end, besides the process going away.
SendOutcomes == {"result", "error_envelope", "timeout"}

\* A backend: config.enabled, config.namespace, the tool names its
\* tools/list result carries, and the runtime instance (in the servers map,
\* its status, its client's isInitialized).
BackendStates ==
  {[enabled |-> e, namespace |-> n, exposes |-> x, inServers |-> r.inServers,
    status |-> r.status, isInitialized |-> r.isInitialized]
     : e \in BOOLEAN, n \in Namespaces, x \in {{}, {"t"}},
       r \in {[inServers |-> TRUE, status |-> "running", isInitialized |-> TRUE],
              [inServers |-> TRUE, status |-> "running", isInitialized |-> FALSE],
              [inServers |-> TRUE, status |-> "error", isInitialized |-> FALSE],
              [inServers |-> FALSE, status |-> "stopped", isInitialized |-> FALSE]}}

NoInvoke ==
  [pc |-> "idle", tool |-> "", index |-> 0, sent |-> {}, fault |-> "none",
   outcome |-> [kind |-> "none", what |-> ""]]

ProxyCur == [b |-> backends, i |-> invoke]

ProxyCommit(st) ==
  /\ backends' = st.b
  /\ invoke' = st.i
  /\ UNCHANGED <<frameVars, gwVars, authVars, clientVars, routeVars, mwVars, nsVars, wiringVars, sseVars, regVars, ownerVars, nsAdminVars, epAdminVars>>

\* The guard of MCPServerManager.getTools and callTool.
Running(st, s) == st.b[s].inServers /\ st.b[s].status = "running"

\* A request is written to the backend's stdin; the caller awaits its reply.
Send(st, s, method, pc) ==
  [st EXCEPT !.i.sent = @ \cup {[to |-> s, method |-> method]}, !.i.pc = pc]

Throw(st, what) == [st EXCEPT !.i.pc = "done", !.i.outcome = [kind |-> "threw", what |-> what]]

Return(st, what) == [st EXCEPT !.i.pc = "done", !.i.outcome = [kind |-> "returned", what |-> what]]

\* MCPClient.getTools up to its first await: the handshake when the client
\* is not initialized, the tools/list request otherwise.
ClientGetTools(st, s) ==
  IF ~st.b[s].isInitialized
  THEN Send(st, s, "initialize", "lookup_init")
  ELSE Send(st, s, "tools/list", "listing")

\* The loop of getServerByTool from position i, up to the next await; when
\* it runs off the end it returns null and MCPProxy.callTool throws.
RECURSIVE GetServerByToolFrom(_, _)
GetServerByToolFrom(st, i) ==
  IF i > Len(ServerOrder)
  THEN Throw([st EXCEPT !.i.index = i], "ToolNotFound")
  ELSE LET s == ServerOrder[i]
       IN IF st.b[s].namespace # Namespace \/ ~st.b[s].enabled \/ ~Running(st, s)
          THEN GetServerByToolFrom(st, i + 1)
          ELSE ClientGetTools([st EXCEPT !.i.index = i], s)

\* MCPClient.callTool after the handshake: the tools/call request settled.
\* A failure is caught and a demo response with isError false is returned.
ClientCallToolSettles(st, out) ==
  IF out = "result"
  THEN Return(st, "result")
  ELSE Return([st EXCEPT !.i.fault = out], "demo")

\* MCPServerManager.callTool up to the await of MCPClient.callTool.
ManagerCallTool(st, s) ==
  IF ~Running(st, s)
  THEN Throw([st EXCEPT !.i.fault = "not_running"], "NotRunning")
  ELSE Send(st, s, "tools/call", "calling")

\* MCPClient.getTools after tools/list settled, and getServerByTool's test
\* of the names: a failed tools/list yields the made-up tool.
ListSettles(st, out) ==
  LET s     == ServerOrder[st.i.index]
      tools == IF out = "result" THEN st.b[s].exposes ELSE {DemoTool(s)}
  IN IF st.i.tool \in tools
     THEN ManagerCallTool(st, s)
     ELSE GetServerByToolFrom(st, st.i.index + 1)

\* The handshake of MCPClient.getTools settled: a failure leaves getTools
\* before its try block and MCPServerManager.getTools answers [].
LookupInitSettles(st, ok) ==
  LET s == ServerOrder[st.i.index]
  IN IF ok
     THEN Send([st EXCEPT !.b[s].isInitialized = TRUE], s, "tools/list", "listing")
     ELSE GetServerByToolFrom(st, st.i.index + 1)

\* The request the call is suspended on settles.
Settles(st, out) ==
  CASE st.i.pc = "lookup_init" -> LookupInitSettles(st, out = "result")
    [] st.i.pc = "listing" -> ListSettles(st, out)
    [] st.i.pc = "calling" -> ClientCallToolSettles(st, out)

Awaited == IF invoke.pc \in {"lookup_init", "listing", "calling"}
           THEN ServerOrder[invoke.index] ELSE "none"

\* MCPProxy.callTool(namespace, toolName, arguments) is called.  The request
\* middleware changes only the arguments.
InvokeBegin ==
  /\ invoke.pc = "idle"
  /\ ProxyCommit(GetServerByToolFrom(ProxyCur, 1))

\* The backend answers, or the request timer fires.
BackendSettles(out) ==
  /\ Awaited # "none"
  /\ Running(ProxyCur, Awaited)
  /\ ProxyCommit(Settles(ProxyCur, out))

\* 'exit' or 'error' event of a backend process: the manager's handler sets
\* the status (and on exit drops the instance), the client's handler rejects
\* every pending request.
BackendFails(s, event) ==
  /\ invoke.pc \notin {"idle", "done"}
  /\ Running(ProxyCur, s)
  /\ LET st == IF event = "exit"
               THEN [ProxyCur EXCEPT !.b[s].status = "stopped", !.b[s].inServers = FALSE]
               ELSE [ProxyCur EXCEPT !.b[s].status = "error"]
     IN ProxyCommit(IF Awaited = s THEN Settles(st, "closed") ELSE st)

(***************************************************************************)
(* The mcp-endpoints router: admission, then the JSON-RPC POST handler     *)
(***************************************************************************)
\* JSON-RPC ids, as JSON text: the numbers 0 and 2 and the string "a".
RpcIds == {"0", "2", "'a'"}

\* The ids that are falsy in JavaScript.
Falsy(id) == id \in {"0", "''"}

NullId == "null"

ListMethods == {"tools/list", "resources/list", "prompts/list"}

RpcMethods == ListMethods \cup {"tools/call", "foo/bar"}

\* Request bodies; `params` is an object with a tool name ("call") or one
\* without ("object").  Every method with plain params, tools/call with a
\* tool name, and a body whose `jsonrpc` is not "2.0".
Bodies ==
  {[jsonrpc |-> "2.0", id |-> i, method |-> m, params |-> "object"]
     : i \in RpcIds, m \in RpcMethods}
    \cup {[jsonrpc |-> "2.0", id |-> i, method |-> "tools/call", params |-> "call"]
            : i \in RpcIds}
    \cup {[jsonrpc |-> "1.0", id |-> i, method |-> "tools/list", params |-> "object"]
            : i \in RpcIds}

NoBody == [jsonrpc |-> "", id |-> "", method |-> "", params |-> ""]

NoEnvelope == [id |-> "", kind |-> "none", code |-> 0]

\* mcpRequestSchema.parse and mcpCallToolRequestSchema.parse succeed.
McpRequestParses(body) == body.jsonrpc = "2.0"

CallToolRequestParses(body) == body.params = "call"

NoRoute ==
  [pc |-> "idle", body |-> NoBody, admitted |-> FALSE, http |-> 0, envelope |-> NoEnvelope,
   events |-> 0, proxyCalls |-> 0, failed |-> 0, succeeded |-> 0]

\* The response leaves: the request has ended, with a result or a failure.
Respond(r, http, envelope, events) ==
  LET ok == http = 200 /\ envelope.kind = "result"
  IN [r EXCEPT !.pc = "done", !.http = http, !.envelope = envelope, !.events = events,
               !.failed = IF ok THEN @ ELSE @ + 1,
               !.succeeded = IF ok THEN @ + 1 ELSE @]

\* The end of the POST handler's try block: the envelope is written as one
\* event on an SSE endpoint and as a JSON body otherwise.
SendResponse(r, transport, envelope) ==
  Respond(r, 200, envelope, IF transport = "SSE" THEN 1 ELSE 0)

\* The catch block of the POST handler.
CatchResponse(r, code) ==
  Respond(r, 500, [id |-> IF Falsy(r.body.id) THEN NullId ELSE r.body.id,
                   kind |-> "error", code |-> code], 0)

\* router.post('*') up to its first await.
RouterPost(r, transport) ==
  IF ~McpRequestParses(r.body) THEN CatchResponse(r, -32602)
  ELSE IF r.body.method = "tools/call"
       THEN IF ~CallToolRequestParses(r.body)
            THEN CatchResponse(r, -32602)
            ELSE [r EXCEPT !.pc = "awaiting", !.proxyCalls = @ + 1]
       ELSE IF r.body.method \in ListMethods
            THEN [r EXCEPT !.pc = "awaiting", !.proxyCalls = @ + 1]
            ELSE SendResponse(r, transport,
                              [id |-> r.body.id, kind |-> "error", code |-> -32601])

\* Whether the middleware hands the request on with next().
NextCalled_Always(httpStatus) == TRUE

NextCalled(httpStatus) == httpStatus = 200

\* A request arrives: the endpoint middleware, and when it calls next() the
\* POST handler up to its first await.
Request(req) ==
  /\ route.pc # "awaiting"
  /\ EndpointMiddlewareStep(req)
  /\ LET r == [NoRoute EXCEPT !.failed = route.failed, !.succeeded = route.succeeded,
                              !.admitted = lastReq'.status = 200]
     IN IF NextCalled(lastReq'.status)
        THEN \E body \in Bodies :
               route' = RouterPost([r EXCEPT !.body = body], endpoint'.transport)
        ELSE route' = Respond(r, lastReq'.status, NoEnvelope, 0)
  /\ UNCHANGED <<frameVars, authVars, clientVars, proxyVars, mwVars, nsVars, wiringVars, sseVars, regVars, ownerVars, nsAdminVars, epAdminVars>>

\* handleToolsList, handleToolCall, handleResourcesList or handlePromptsList
\* returns: the call of MCPProxy returned or raised.
ProxySettles(ok) ==
  /\ route.pc = "awaiting"
  /\ route' = SendResponse(route, endpoint.transport,
                           IF ok THEN [id |-> route.body.id, kind |-> "result", code |-> 0]
                           ELSE [id |-> route.body.id, kind |-> "error", code |-> -32603])
  /\ UNCHANGED <<frameVars, gwVars, authVars, clientVars, proxyVars, mwVars, nsVars, wiringVars, sseVars, regVars, ownerVars, nsAdminVars, epAdminVars>>

(***************************************************************************)
(* MiddlewareEngine: the registry and one pipeline run                     *)
(***************************************************************************)
MaxMwOps == 3

MwIds == {"m1", "m2", "m3", "m4"}

Priorities == {10, 20, 30}

\* The middlewares that are registered: one of each type bound to the
\* namespace of the payload, and one bound to another namespace.
MwType(id) ==
  CASE id = "m1" -> "request"
    [] id = "m2" -> "bidirectional"
    [] id = "m3" -> "response"
    [] id = "m4" -> "request"

MwNamespaces(id) == IF id = "m4" THEN {"other"} ELSE {Namespace}

\* A MiddlewareConfig: id, type, enabled, priority and namespaces; the code
\* of a stage is what it does when it runs (StageOutcomes).
MwConfigs ==
  {[id |-> i, type |-> MwType(i), enabled |-> e, priority |-> p,
    namespaces |-> MwNamespaces(i)] : i \in MwIds, e \in BOOLEAN, p \in Priorities}

\* Map.set: a new key goes to the end, an existing key keeps its place.
MapSet(map, cfg) ==
  IF \E i \in 1..Len(map) : map[i].id = cfg.id
  THEN [i \in 1..Len(map) |-> IF map[i].id = cfg.id THEN cfg ELSE map[i]]
  ELSE Append(map, cfg)

\* Map.delete
MapDelete(map, id) == SelectSeq(map, LAMBDA m : m.id # id)

\* Array.prototype.sort with (a, b) => a.priority - b.priority: a stable
\* sort, here by insertion from the left.
RECURSIVE InsertByPriority(_, _)
InsertByPriority(sorted, m) ==
  IF sorted = <<>> THEN <<m>>
  ELSE IF Head(sorted).priority - m.priority > 0
       THEN <<m>> \o sorted
       ELSE <<Head(sorted)>> \o InsertByPriority(Tail(sorted), m)

RECURSIVE SortByPriority(_)
SortByPriority(seq) ==
  IF seq = <<>> THEN <<>>
  ELSE InsertByPriority(SortByPriority(SubSeq(seq, 1, Len(seq) - 1)), seq[Len(seq)])

\* getMiddlewaresByNamespace that returns the Map's values as they are.
getMiddlewaresByNamespace_Unsorted(map, namespace) == map

\* MiddlewareEngine.getMiddlewaresByNamespace: the namespace is not looked at.
getMiddlewaresByNamespace(map, namespace) == SortByPriority(map)

\* The test of the loop of processTools, processRequest and processResponse.
StageApplies(kind, m) ==
  /\ m.enabled
  /\ CASE kind = "tools" -> m.type = "response"
       [] kind = "request" -> m.type \in {"request", "bidirectional"}
       [] kind = "response" -> m.type \in {"response", "bidirectional"}

PipelineKinds == {"tools", "request", "response"}

\* What the code of a stage does with its payload: return a new payload,
\* return nothing, raise, change the payload in place and raise, or return
\* a promise that resolves to a new payload or that rejects.
StageOutcomes == {"value", "nothing", "throws", "mutates_throws", "resolves", "rejects"}

NoPipeline ==
  [pc |-> "idle", kind |-> "", namespace |-> "", stages |-> <<>>, index |-> 0,
   data |-> <<>>, log |-> <<>>, active |-> 0, raised |-> FALSE]

\* The pipeline goes on after a stage: `out` is the payload handed on.
StageDone(pl, outcome, out) ==
  LET m == pl.stages[pl.index]
  IN [pl EXCEPT !.log = Append(@, [id |-> m.id, input |-> pl.data, outcome |-> outcome,
                                   output |-> out]),
                !.data = out,
                !.active = 0,
                !.index = @ + 1,
                !.pc = IF pl.index = Len(pl.stages) THEN "done" ELSE "running"]

\* The await of applyMiddleware raises: the pipeline call is left at once.
StageRaised(pl, outcome) ==
  LET m == pl.stages[pl.index]
  IN [pl EXCEPT !.log = Append(@, [id |-> m.id, input |-> pl.data, outcome |-> outcome,
                                   output |-> pl.data]),
                !.active = 0,
                !.raised = TRUE,
                !.pc = "done"]

\* MiddlewareEngine.applyMiddleware for a stage that returns or raises:
\* `fn(data, config) || data` in the try block, `data` in the catch block.
\* The payload is an object: what a stage changed in place stays changed.
applyMiddleware(data, m, outcome) ==
  CASE outcome = "value" -> Append(data, m.id)
    [] outcome = "nothing" -> data
    [] outcome = "throws" -> data
    [] outcome = "mutates_throws" -> Append(data, m.id)

\* addMiddleware
AddMiddleware(cfg) ==
  /\ pipeline.pc = "idle"
  /\ mwOps < MaxMwOps
  /\ mwOps' = mwOps + 1
  /\ middlewares' = MapSet(middlewares, cfg)
  /\ UNCHANGED <<pipeline, frameVars, gwVars, authVars, clientVars, proxyVars, routeVars, nsVars, wiringVars, sseVars, regVars, ownerVars, nsAdminVars, epAdminVars>>

\* removeMiddleware
RemoveMiddleware(id) ==
  /\ pipeline.pc = "idle"
  /\ mwOps < MaxMwOps
  /\ \E i \in 1..Len(middlewares) : middlewares[i].id = id
  /\ mwOps' = mwOps + 1
  /\ middlewares' = MapDelete(middlewares, id)
  /\ UNCHANGED <<pipeline, frameVars, gwVars, authVars, clientVars, proxyVars, routeVars, nsVars, wiringVars, sseVars, regVars, ownerVars, nsAdminVars, epAdminVars>>

\* processTools, processRequest or processResponse is called for a payload
\* of the namespace: the list is read and sorted, and the stages that pass
\* the test of the loop are the ones that will run.
StartPipeline(kind, namespace) ==
  /\ pipeline.pc = "idle"
  /\ LET stages == SelectSeq(getMiddlewaresByNamespace(middlewares, namespace),
                             LAMBDA m : StageApplies(kind, m))
     IN pipeline' = [NoPipeline EXCEPT !.kind = kind, !.namespace = namespace,
                                       !.stages = stages, !.index = 1,
                                       !.pc = IF stages = <<>> THEN "done" ELSE "running"]
  /\ UNCHANGED <<middlewares, mwOps, frameVars, gwVars, authVars, clientVars, proxyVars,
                 routeVars, nsVars, wiringVars, sseVars, regVars, ownerVars, nsAdminVars, epAdminVars>>

\* `await this.applyMiddleware(...)` for the next stage: a stage that
\* returns or raises is over at once, a stage that returns a promise is
\* awaited.
RunStage(outcome) ==
  /\ pipeline.pc = "running"
  /\ pipeline' = IF outcome \in {"resolves", "rejects"}
                 THEN [pipeline EXCEPT !.pc = "awaiting", !.active = @ + 1,
                                       !.log = Append(@, [id |-> pipeline.stages[pipeline.index].id,
                                                          input |-> pipeline.data,
                                                          outcome |-> "pending",
                                                          output |-> pipeline.data])]
                 ELSE StageDone(pipeline, outcome,
                                applyMiddleware(pipeline.data, pipeline.stages[pipeline.index],
                                                outcome))
  /\ UNCHANGED <<middlewares, mwOps, frameVars, gwVars, authVars, clientVars, proxyVars,
                 routeVars, nsVars, wiringVars, sseVars, regVars, ownerVars, nsAdminVars, epAdminVars>>

\* The promise a stage returned settles: its value is the payload handed
\* on; its rejection is raised by the await, outside applyMiddleware's try.
StageSettles(outcome) ==
  /\ pipeline.pc = "awaiting"
  /\ LET pl == [pipeline EXCEPT !.log = SubSeq(@, 1, Len(@) - 1)]
     IN pipeline' = IF outcome = "resolves"
                    THEN StageDone(pl, outcome, Append(pl.data, pl.stages[pl.index].id))
                    ELSE StageRaised(pl, outcome)
  /\ UNCHANGED <<middlewares, mwOps, frameVars, gwVars, authVars, clientVars, proxyVars,
                 routeVars, nsVars, wiringVars, sseVars, regVars, ownerVars, nsAdminVars, epAdminVars>>

(***************************************************************************)
(* NamespaceManager: the seeded namespace `default`, the backends           *)
(* registered in it and aggregateNamespaceTools.                            *)
(***************************************************************************)
MaxNsOps == 4

NsServerIds == {"a", "b"}

\* MCPServerConfig.name
ServerName(id) == IF id = "a" THEN "A" ELSE "B"

\* What a tools/list call to the backend answers.
DiscoveredTools(id) == IF id = "a" THEN <<"echo">> ELSE <<"echo", "add">>

\* NamespaceManager.getToolsFromServer: one tool named after the server.
getToolsFromServer(server) == <<server.name \o "_tool_1">>

\* toolWhitelist / toolBlacklist: only `includes` and `length > 0` are used,
\* so a list is modelled by the set of its names (absent = empty).
ToolLists == SUBSET {"A_tool_1", "B_tool_1", "echo"}

\* The seeded namespace `default`.
DefaultNamespace ==
  [id |-> "default", enabled |-> TRUE, servers |-> <<>>,
   toolWhitelist |-> {}, toolBlacklist |-> {}]

\* Partial<NamespaceConfig> of updateNamespace, one field at a time.
NamespaceUpdates ==
  {[field |-> "enabled", enabled |-> e, list |-> {}] : e \in BOOLEAN}
    \cup {[field |-> f, enabled |-> TRUE, list |-> l]
            : f \in {"toolWhitelist", "toolBlacklist"}, l \in ToolLists}

NoAggregation ==
  [called |-> FALSE, namespace |-> DefaultNamespace, servers |-> <<>>,
   result |-> <<>>, queried |-> <<>>]

\* Array.includes on a list of ids
IncludesId(seq, x) == \E i \in 1..Len(seq) : seq[i] = x

\* this.servers.get(id)
ServerOf(map, id) == map[CHOOSE i \in 1..Len(map) : map[i].id = id]

\* NamespaceManager.getNamespaceServers: the registered members, in member
\* order.
RECURSIVE getNamespaceServers(_, _)
getNamespaceServers(ids, map) ==
  IF ids = <<>> THEN <<>>
  ELSE IF \E i \in 1..Len(map) : map[i].id = Head(ids)
       THEN <<ServerOf(map, Head(ids))>> \o getNamespaceServers(Tail(ids), map)
       ELSE getNamespaceServers(Tail(ids), map)

\* The loop of aggregateNamespaceTools: allTools.push(...serverTools) for
\* every enabled member.
RECURSIVE CollectTools(_)
CollectTools(members) ==
  IF members = <<>> THEN <<>>
  ELSE IF Head(members).enabled
       THEN getToolsFromServer(Head(members)) \o CollectTools(Tail(members))
       ELSE CollectTools(Tail(members))

\* The same function without the test of namespace.enabled.
aggregateNamespaceTools_AnyNamespace(ns, map) ==
  LET members == getNamespaceServers(ns.servers, map)
      allTools == CollectTools(members)
      allowed == IF ns.toolWhitelist # {}
                 THEN SelectSeq(allTools, LAMBDA t : t \in ns.toolWhitelist)
                 ELSE allTools
      kept == IF ns.toolBlacklist # {}
              THEN SelectSeq(allowed, LAMBDA t : t \notin ns.toolBlacklist)
              ELSE allowed
      asked == SelectSeq(members, LAMBDA m : m.enabled)
  IN [result |-> kept, queried |-> [i \in 1..Len(asked) |-> asked[i].id]]

\* NamespaceManager.aggregateNamespaceTools: the tools returned and the
\* backends getToolsFromServer was called for.
aggregateNamespaceTools(ns, map) ==
  IF ~ns.enabled
  THEN [result |-> <<>>, queried |-> <<>>]
  ELSE LET members == getNamespaceServers(ns.servers, map)
           allTools == CollectTools(members)
           allowed == IF ns.toolWhitelist # {}
                      THEN SelectSeq(allTools, LAMBDA t : t \in ns.toolWhitelist)
                      ELSE allTools
           kept == IF ns.toolBlacklist # {}
                   THEN SelectSeq(allowed, LAMBDA t : t \notin ns.toolBlacklist)
                   ELSE allowed
           asked == SelectSeq(members, LAMBDA m : m.enabled)
       IN [result |-> kept, queried |-> [i \in 1..Len(asked) |-> asked[i].id]]

\* registerServer: servers.set, then addServerToNamespace, which runs to its
\* end before registerServer returns (it awaits nothing).
RegisterServer(id) ==
  /\ nsOps < MaxNsOps
  /\ nsOps' = nsOps + 1
  /\ servers' = MapSet(servers, [id |-> id, name |-> ServerName(id), enabled |-> TRUE,
                                 namespace |-> "default"])
  /\ namespaces' = IF IncludesId(namespaces.servers, id) THEN namespaces
                   ELSE [namespaces EXCEPT !.servers = Append(@, id)]
  /\ UNCHANGED <<aggregation, frameVars, gwVars, authVars, clientVars, proxyVars, routeVars,
                 mwVars, wiringVars, sseVars, regVars, ownerVars, nsAdminVars, epAdminVars>>

\* unregisterServer: removeServerFromNamespace of a registered server, then
\* servers.delete.
UnregisterServer(id) ==
  /\ nsOps < MaxNsOps
  /\ nsOps' = nsOps + 1
  /\ namespaces' = IF \E i \in 1..Len(servers) : servers[i].id = id
                   THEN [namespaces EXCEPT !.servers = SelectSeq(@, LAMBDA x : x # id)]
                   ELSE namespaces
  /\ servers' = MapDelete(servers, id)
  /\ UNCHANGED <<aggregation, frameVars, gwVars, authVars, clientVars, proxyVars, routeVars,
                 mwVars, wiringVars, sseVars, regVars, ownerVars, nsAdminVars, epAdminVars>>

\* servers.toggle of the administrative interface: it sets `enabled` of the
\* object that registerServer stored.
ToggleServer(id, enabled) ==
  /\ nsOps < MaxNsOps
  /\ \E i \in 1..Len(servers) : servers[i].id = id
  /\ nsOps' = nsOps + 1
  /\ servers' = [i \in 1..Len(servers) |->
                   IF servers[i].id = id THEN [servers[i] EXCEPT !.enabled = enabled]
                   ELSE servers[i]]
  /\ UNCHANGED <<namespaces, aggregation, frameVars, gwVars, authVars, clientVars, proxyVars,
                 routeVars, mwVars, wiringVars, sseVars, regVars, ownerVars, nsAdminVars, epAdminVars>>

\* updateNamespace('default', updates)
UpdateNamespace(updates) ==
  /\ nsOps < MaxNsOps
  /\ nsOps' = nsOps + 1
  /\ namespaces' = CASE updates.field = "enabled" ->
                          [namespaces EXCEPT !.enabled = updates.enabled]
                     [] updates.field = "toolWhitelist" ->
                          [namespaces EXCEPT !.toolWhitelist = updates.list]
                     [] updates.field = "toolBlacklist" ->
                          [namespaces EXCEPT !.toolBlacklist = updates.list]
  /\ UNCHANGED <<servers, aggregation, frameVars, gwVars, authVars, clientVars, proxyVars,
                 routeVars, mwVars, wiringVars, sseVars, regVars, ownerVars, nsAdminVars, epAdminVars>>

\* aggregateNamespaceTools('default')
AggregateNamespaceTools ==
  /\ LET out == aggregateNamespaceTools(namespaces, servers)
     IN aggregation' = [called |-> TRUE, namespace |-> namespaces, servers |-> servers,
                        result |-> out.result, queried |-> out.queried]
  /\ UNCHANGED <<namespaces, servers, nsOps, frameVars, gwVars, authVars, clientVars,
                 proxyVars, routeVars, mwVars, wiringVars, sseVars, regVars, ownerVars, nsAdminVars, epAdminVars>>

(***************************************************************************)
(* The administrative interface (routes/trpc.ts) and the gateway router    *)
(* (routes/mcp-endpoints.ts), each with the service instances it creates.   *)
(***************************************************************************)
WiringPaths == {"/gw/d", "/gw/e"}

WiringNamespaces == {"default", "development"}

BackendNames == {"B", "C"}

\* What the backend of that name answers to tools/list.
BackendExposes(name) == IF name = "B" THEN {"echo"} ELSE {"add"}

\* The requests POSTed: a tools/list and a tools/call of `echo` with id 2.
WiringBodies ==
  {[method |-> "tools/list", id |-> 1, tool |-> ""],
   [method |-> "tools/call", id |-> 2, tool |-> "echo"]}

NoReply ==
  [sent |-> FALSE, path |-> "", body |-> [method |-> "", id |-> 0, tool |-> ""],
   afterSetUp |-> FALSE, http |-> 0, kind |-> "none", id |-> 0, listed |-> {}]

\* servers.create of the administrative interface: the config is pushed to
\* the module's `servers` and registered with the module's NamespaceManager.
ServersCreate(name, namespace) ==
  /\ adminServers' = adminServers \cup {[name |-> name, namespace |-> namespace]}
  /\ UNCHANGED <<adminEndpoints, routerEndpoints, routerBackends, reply, frameVars, gwVars,
                 authVars, clientVars, proxyVars, routeVars, mwVars, nsVars, sseVars, regVars, ownerVars, nsAdminVars, epAdminVars>>

\* endpoints.create of the administrative interface: createEndpoint of the
\* module's EndpointManager, which refuses a path it already has.
EndpointsCreate(path, namespace) ==
  /\ \A e \in adminEndpoints : e.path # path
  /\ adminEndpoints' = adminEndpoints \cup
                         {[path |-> path, namespace |-> namespace, enabled |-> TRUE,
                           auth |-> "none"]}
  /\ UNCHANGED <<adminServers, routerEndpoints, routerBackends, reply, frameVars, gwVars,
                 authVars, clientVars, proxyVars, routeVars, mwVars, nsVars, sseVars, regVars, ownerVars, nsAdminVars, epAdminVars>>

\* getEndpointByPath of the router's EndpointManager
GetEndpointByPath(endpoints, path) == {e \in endpoints : e.path = path}

\* The tools the router's MCPProxy aggregates for a namespace.
AggregateServers(namespace) ==
  UNION {BackendExposes(b.name) : b \in {x \in routerBackends : x.namespace = namespace}}

\* A request POSTed to the gateway: createEndpointMiddleware of the router's
\* EndpointManager, then the POST handler with the router's MCPProxy.
GatewayPost(path, body) ==
  /\ LET found == GetEndpointByPath(routerEndpoints, path)
         setUp == /\ [name |-> "B", namespace |-> "default"] \in adminServers
                  /\ \E e \in adminEndpoints : e.path = path /\ e.namespace = "default"
         sent == [NoReply EXCEPT !.sent = TRUE, !.path = path, !.body = body,
                                 !.afterSetUp = setUp]
     IN IF found = {} \/ \A e \in found : ~e.enabled
        THEN reply' = [sent EXCEPT !.http = 404]
        ELSE LET e == CHOOSE x \in found : x.enabled
                 listed == AggregateServers(e.namespace)
             IN reply' = IF body.method = "tools/list"
                         THEN [sent EXCEPT !.http = 200, !.kind = "result", !.id = body.id,
                                           !.listed = listed]
                         ELSE [sent EXCEPT !.http = 200, !.id = body.id,
                                           !.kind = IF body.tool \in listed THEN "result"
                                                    ELSE "error"]
  /\ UNCHANGED <<adminServers, adminEndpoints, routerEndpoints, routerBackends, frameVars,
                 gwVars, authVars, clientVars, proxyVars, routeVars, mwVars, nsVars, sseVars, regVars, ownerVars, nsAdminVars, epAdminVars>>

(***************************************************************************)
(* Event streams: the SSE branch of the POST handler and GET P/sse          *)
(***************************************************************************)
MaxSseTicks == 7

\* The period of setInterval in GET P/sse, and the step of time of the model.
KeepAliveMs == 30000

TickMs == 10000

Transports == {"HTTP", "SSE"}

NoConnection ==
  [route |-> "none", transport |-> "HTTP", http |-> 0, open |-> FALSE, ended |-> FALSE,
   events |-> <<>>, keepAlive |-> FALSE, elapsed |-> 0, age |-> 0, eventsAtClose |-> 0]

\* router.post('*') of an admitted request, from the point where the
\* response envelope is known: one `data:` event and res.end() on an SSE
\* endpoint, res.json otherwise.
PostResponds(transport) ==
  /\ sse.route = "none" \/ ~sse.open
  /\ sse' = [NoConnection EXCEPT !.route = "post", !.transport = transport, !.http = 200,
                                 !.open = TRUE, !.ended = TRUE,
                                 !.events = IF transport = "SSE" THEN <<"response">>
                                            ELSE <<>>]
  /\ UNCHANGED <<sseTicks, frameVars, gwVars, authVars, clientVars, proxyVars, routeVars,
                 mwVars, nsVars, wiringVars, regVars, ownerVars, nsAdminVars, epAdminVars>>

\* router.get('*/sse'): 404 unless the endpoint is an SSE endpoint; else a
\* `connection` event, and setInterval of the ping.
GetSse(transport) ==
  /\ sse.route = "none" \/ ~sse.open
  /\ sse' = IF transport # "SSE"
            THEN [NoConnection EXCEPT !.route = "get", !.transport = transport,
                                      !.http = 404, !.open = TRUE, !.ended = TRUE]
            ELSE [NoConnection EXCEPT !.route = "get", !.transport = transport,
                                      !.http = 200, !.open = TRUE,
                                      !.events = <<"connection">>, !.keepAlive = TRUE]
  /\ UNCHANGED <<sseTicks, frameVars, gwVars, authVars, clientVars, proxyVars, routeVars,
                 mwVars, nsVars, wiringVars, regVars, ownerVars, nsAdminVars, epAdminVars>>

\* Time passes; when the interval has elapsed the keepAlive callback writes
\* a ping.
SseTick ==
  /\ sse.route # "none"
  /\ sseTicks < MaxSseTicks
  /\ sseTicks' = sseTicks + 1
  /\ LET due == sse.keepAlive /\ sse.elapsed + TickMs = KeepAliveMs
     IN sse' = [sse EXCEPT !.age = IF sse.open THEN @ + TickMs ELSE @,
                           !.elapsed = IF ~sse.keepAlive \/ due THEN 0 ELSE @ + TickMs,
                           !.events = IF due THEN Append(@, "ping") ELSE @]
  /\ UNCHANGED <<frameVars, gwVars, authVars, clientVars, proxyVars, routeVars, mwVars,
                 nsVars, wiringVars, regVars, ownerVars, nsAdminVars, epAdminVars>>

\* The peer disconnects: the 'close' handler registered by GET P/sse clears
\* the interval; the POST handler registered none.
PeerDisconnects ==
  /\ sse.open
  /\ sse' = [sse EXCEPT !.open = FALSE, !.keepAlive = FALSE,
                        !.eventsAtClose = Len(sse.events)]
  /\ UNCHANGED <<sseTicks, frameVars, gwVars, authVars, clientVars, proxyVars, routeVars,
                 mwVars, nsVars, wiringVars, regVars, ownerVars, nsAdminVars, epAdminVars>>

(***************************************************************************)
(* MCPServerManager: createServer, stopServer, restartServer and the        *)
(* events of the backend processes.                                         *)
(***************************************************************************)
MaxMgrCalls == 3

MaxInstances == 2

\* config.id as passed to createServer: an id, or none ('' or undefined).
ConfigIds == {"a", ""}

MgrTypes == {"STDIO", "HTTP"}

MgrConfigs == {[id |-> i, type |-> t] : i \in ConfigIds, t \in MgrTypes}

\* uuidv4(): the n-th generated id.
Uuid(n) == CASE n = 1 -> "u1" [] n = 2 -> "u2" [] n = 3 -> "u3" [] n = 4 -> "u4"
             [] OTHER -> "u5"

\* The ids stopServer and restartServer are called with.
CalledIds == {"a", "u1"}

\* this.servers.has(key) / this.configs.has(key)
MapHas(map, key) == \E i \in 1..Len(map) : map[i].id = key

\* this.servers.get(key) / this.configs.get(key)
MapGet(map, key) == map[CHOOSE i \in 1..Len(map) : map[i].id = key]

Registry == [servers |-> mgrServers, configs |-> mgrConfigs]

NoRegistry == [servers |-> <<>>, configs |-> <<>>]

NoMgrCall ==
  [n |-> 0, op |-> "none", key |-> "", pc |-> "returned",
   config |-> [id |-> "", type |-> "STDIO"], hadConfig |-> FALSE, inst |-> 0,
   statusAtReturn |-> "", repeat |-> FALSE, signalled |-> FALSE, threw |-> FALSE,
   before |-> NoRegistry, after |-> NoRegistry]

NoMgrEvent == [kind |-> "none", status |-> "", hasEntry |-> FALSE, hasConfig |-> FALSE]

\* getServerStatus(serverId): `instance?.status || 'not_found'`
GetServerStatus(srv, insts, key) ==
  IF MapHas(srv, key) THEN insts[MapGet(srv, key).inst].status ELSE "not_found"

\* `config.id || uuidv4()`
ServerIdOf(cfg, n) == IF cfg.id = "" THEN Uuid(n + 1) ELSE cfg.id

\* The MCPServerInstance createServer builds: a process backend has a child
\* process being spawned and no client yet, an HTTP backend has a client
\* whose handshake is awaited.
NewInstance(key, cfg) ==
  [key |-> key, type |-> cfg.type, status |-> "starting",
   proc |-> IF cfg.type = "STDIO" THEN "spawning" ELSE "none",
   client |-> cfg.type = "HTTP",
   handshake |-> IF cfg.type = "HTTP" THEN "pending" ELSE "none",
   stopped |-> FALSE]

\* Whether process.kill() reaches a process: only while the child exists.
Signals(inst) == inst.proc \in {"spawning", "alive"}


\* The end of stopServer without the deletes.
ReleaseServer_Keeps(map, key) == map

\* The end of stopServer: this.servers.delete(serverId) and
\* this.configs.delete(serverId).
ReleaseServer(map, key) == MapDelete(map, key)

\* A call begins; a call that does not await anything has returned (or
\* thrown) in the same step.  Calls under way are told apart by their number.
BeginCall(c) ==
  /\ mgrOps < MaxMgrCalls
  /\ mgrOps' = mgrOps + 1
  /\ IF c.pc = "returned"
     THEN lastCall' = c /\ UNCHANGED mgrCalls
     ELSE mgrCalls' = mgrCalls \cup {[c EXCEPT !.n = mgrOps + 1]} /\ UNCHANGED lastCall

\* An error event of instance i, when i is the registered instance of its
\* id and nobody stopped it: what the registry `srv`, `cfgs` and
\* getServerStatus show once the handler has run.
ErrorEvent(kind, i, srv, cfgs, insts) ==
  IF /\ MapHas(mgrServers, instances[i].key)
     /\ MapGet(mgrServers, instances[i].key).inst = i
     /\ ~instances[i].stopped
  THEN [kind |-> kind, status |-> GetServerStatus(srv, insts, instances[i].key),
        hasEntry |-> MapHas(srv, instances[i].key),
        hasConfig |-> MapHas(cfgs, instances[i].key)]
  ELSE lastEvent

\* Instances created, and to be created by the restartServer calls under
\* way, stay within the bound.
CanCreate ==
  Len(instances) + Cardinality({c \in mgrCalls : c.pc \in {"awaitDisconnect", "pause"}
                                                   /\ c.op = "restart"}) < MaxInstances

\* createServer(config): the instance and the config are stored; a process
\* backend returns at once, an HTTP backend awaits client.initialize().
CreateServer(cfg) ==
  LET key == ServerIdOf(cfg, uuids)
      n   == Len(instances) + 1
      servers1 == MapSet(mgrServers, [id |-> key, inst |-> n])
      configs1 == MapSet(mgrConfigs, [id |-> key, config |-> cfg])
      waits == cfg.type = "HTTP"
  IN /\ CanCreate
     /\ instances' = Append(instances, NewInstance(key, cfg))
     /\ mgrServers' = servers1
     /\ mgrConfigs' = configs1
     /\ uuids' = IF cfg.id = "" THEN uuids + 1 ELSE uuids
     /\ BeginCall([NoMgrCall EXCEPT !.op = "create", !.key = key, !.config = cfg, !.inst = n,
                                    !.pc = IF waits THEN "awaitInit" ELSE "returned",
                                    !.statusAtReturn = IF waits THEN "" ELSE "starting",
                                    !.after = [servers |-> servers1, configs |-> configs1]])
     /\ UNCHANGED <<lastEvent, frameVars, gwVars, authVars, clientVars, proxyVars, routeVars,
                    mwVars, nsVars, wiringVars, sseVars, ownerVars, nsAdminVars, epAdminVars>>

\* client.initialize() of an HTTP backend settles in createServer: the status
\* becomes running or error, and createServer (and a restartServer awaiting
\* it) returns.
InitSettles(c, ok) ==
  /\ c \in mgrCalls
  /\ c.pc = "awaitInit"
  /\ LET settled == IF ok THEN "running" ELSE "error"
         insts == [instances EXCEPT ![c.inst].status = settled,
                                    ![c.inst].handshake = IF ok THEN "ok" ELSE "failed"]
     IN /\ instances' = insts
        /\ mgrCalls' = mgrCalls \ {c}
        /\ lastCall' = [c EXCEPT !.n = 0, !.pc = "returned", !.statusAtReturn = settled,
                                 !.after = Registry]
        /\ lastEvent' = IF ok THEN lastEvent
                        ELSE ErrorEvent("handshake", c.inst, mgrServers, mgrConfigs, insts)
  /\ UNCHANGED <<mgrServers, mgrConfigs, uuids, mgrOps, frameVars, gwVars, authVars,
                 clientVars, proxyVars, routeVars, mwVars, nsVars, wiringVars, sseVars, ownerVars, nsAdminVars, epAdminVars>>

\* 'spawn' event: the status becomes running, the client is created and its
\* handshake begins.
ProcSpawned(i) ==
  /\ i \in 1..Len(instances)
  /\ instances[i].proc = "spawning"
  /\ instances' = [instances EXCEPT ![i].proc = "alive", ![i].status = "running",
                                    ![i].client = TRUE, ![i].handshake = "pending"]
  /\ UNCHANGED <<mgrServers, mgrConfigs, mgrCalls, uuids, mgrOps, lastCall, lastEvent,
                 frameVars, gwVars, authVars, clientVars, proxyVars, routeVars, mwVars,
                 nsVars, wiringVars, sseVars, ownerVars, nsAdminVars, epAdminVars>>

\* The handshake begun by the 'spawn' handler settles: a failure sets the
\* status to error.  It can succeed only while the process lives.
HandshakeSettles(i, ok) ==
  /\ i \in 1..Len(instances)
  /\ instances[i].type = "STDIO"
  /\ instances[i].handshake = "pending"
  /\ ok => instances[i].proc = "alive"
  /\ LET insts == [instances EXCEPT ![i].handshake = IF ok THEN "ok" ELSE "failed",
                                    ![i].status = IF ok THEN @ ELSE "error"]
     IN /\ instances' = insts
        /\ lastEvent' = IF ok THEN lastEvent
                        ELSE ErrorEvent("handshake", i, mgrServers, mgrConfigs, insts)
  /\ UNCHANGED <<mgrServers, mgrConfigs, mgrCalls, uuids, mgrOps, lastCall, frameVars,
                 gwVars, authVars, clientVars, proxyVars, routeVars, mwVars, nsVars,
                 wiringVars, sseVars, ownerVars, nsAdminVars, epAdminVars>>

\* 'error' event of a process that could not be spawned.
ProcSpawnFailed(i) ==
  /\ i \in 1..Len(instances)
  /\ instances[i].proc = "spawning"
  /\ LET insts == [instances EXCEPT ![i].proc = "failed", ![i].status = "error"]
     IN /\ instances' = insts
        /\ lastEvent' = ErrorEvent("spawn", i, mgrServers, mgrConfigs, insts)
  /\ UNCHANGED <<mgrServers, mgrConfigs, mgrCalls, uuids, mgrOps, lastCall, frameVars,
                 gwVars, authVars, clientVars, proxyVars, routeVars, mwVars, nsVars,
                 wiringVars, sseVars, ownerVars, nsAdminVars, epAdminVars>>

\* 'exit' event: the status becomes stopped and the handler deletes the
\* entry of its serverId from this.servers.
ProcExited(i) ==
  /\ i \in 1..Len(instances)
  /\ instances[i].proc = "alive"
  /\ LET insts == [instances EXCEPT ![i].proc = "exited", ![i].status = "stopped"]
         servers1 == MapDelete(mgrServers, instances[i].key)
     IN /\ instances' = insts
        /\ mgrServers' = servers1
        /\ lastEvent' = ErrorEvent("exit", i, servers1, mgrConfigs, insts)
  /\ UNCHANGED <<mgrConfigs, mgrCalls, uuids, mgrOps, lastCall, frameVars, gwVars, authVars,
                 clientVars, proxyVars, routeVars, mwVars, nsVars, wiringVars, sseVars, ownerVars, nsAdminVars, epAdminVars>>

\* stopServer up to `await instance.client.disconnect()`, or to its end when
\* there is no instance or the instance has no client.  `c` is the call
\* record, `then` the position reached after the deletes.  SIGTERM is
\* sent to a process that exists (`sent`); the force-kill timer set here
\* sends nothing when it fires: process.killed is set unless SIGTERM found no
\* process, and then SIGKILL finds none either.
StopBegin(c, then) ==
  IF ~MapHas(mgrServers, c.key)
  THEN /\ BeginCall([c EXCEPT !.pc = then, !.after = Registry])
       /\ UNCHANGED <<instances, mgrServers, mgrConfigs>>
  ELSE LET i == MapGet(mgrServers, c.key).inst
           inst == [instances[i] EXCEPT !.stopped = TRUE]
           sent == inst.proc # "none" /\ Signals(inst)
       IN /\ instances' = [instances EXCEPT ![i] = inst]
          /\ IF inst.client
             THEN /\ BeginCall([c EXCEPT !.pc = "awaitDisconnect", !.signalled = sent])
                  /\ UNCHANGED <<mgrServers, mgrConfigs>>
             ELSE /\ mgrServers' = ReleaseServer(mgrServers, c.key)
                  /\ mgrConfigs' = ReleaseServer(mgrConfigs, c.key)
                  /\ BeginCall([c EXCEPT !.pc = then, !.signalled = sent,
                                         !.after = [servers |-> ReleaseServer(mgrServers, c.key),
                                                    configs |-> ReleaseServer(mgrConfigs, c.key)]])

\* stopServer(serverId) is called.  The call repeats a stop when the call
\* that returned last was stopServer of the same id and no call is under way.
StopServer(key) ==
  LET repeats == lastCall.op = "stop" /\ lastCall.key = key /\ mgrCalls = {}
  IN /\ StopBegin([NoMgrCall EXCEPT !.op = "stop", !.key = key, !.repeat = repeats,
                                    !.before = Registry],
                  "returned")
     /\ UNCHANGED <<uuids, lastEvent, frameVars, gwVars, authVars, clientVars, proxyVars,
                    routeVars, mwVars, nsVars, wiringVars, sseVars, ownerVars, nsAdminVars, epAdminVars>>

\* stopServer after the await: the runtime entry and the config are deleted;
\* stopServer returns, restartServer goes on to its pause.
StopResumes(c) ==
  /\ c \in mgrCalls
  /\ c.pc = "awaitDisconnect"
  /\ LET servers1 == ReleaseServer(mgrServers, c.key)
         configs1 == ReleaseServer(mgrConfigs, c.key)
         c1 == [c EXCEPT !.n = IF c.op = "stop" THEN 0 ELSE @,
                         !.pc = IF c.op = "stop" THEN "returned" ELSE "pause",
                         !.after = [servers |-> servers1, configs |-> configs1]]
     IN /\ mgrServers' = servers1
        /\ mgrConfigs' = configs1
        /\ IF c.op = "stop"
           THEN mgrCalls' = mgrCalls \ {c} /\ lastCall' = c1
           ELSE mgrCalls' = (mgrCalls \ {c}) \cup {c1} /\ UNCHANGED lastCall
  /\ UNCHANGED <<instances, uuids, mgrOps, lastEvent, frameVars, gwVars, authVars,
                 clientVars, proxyVars, routeVars, mwVars, nsVars, wiringVars, sseVars, ownerVars, nsAdminVars, epAdminVars>>

\* restartServer(serverId) is called: it throws when no config is stored,
\* else it runs stopServer.
RestartServer(key) ==
  /\ IF ~MapHas(mgrConfigs, key)
     THEN /\ BeginCall([NoMgrCall EXCEPT !.op = "restart", !.key = key, !.threw = TRUE,
                                         !.before = Registry, !.after = Registry])
          /\ UNCHANGED <<instances, mgrServers, mgrConfigs>>
     ELSE /\ CanCreate
          /\ StopBegin([NoMgrCall EXCEPT !.op = "restart", !.key = key, !.hadConfig = TRUE,
                                          !.config = MapGet(mgrConfigs, key).config,
                                          !.before = Registry],
                        "pause")
  /\ UNCHANGED <<uuids, lastEvent, frameVars, gwVars, authVars, clientVars, proxyVars,
                 routeVars, mwVars, nsVars, wiringVars, sseVars, ownerVars, nsAdminVars, epAdminVars>>

\* The pause of restartServer is over: createServer(config) with the config
\* read at the start.
PauseEnds(c) ==
  /\ c \in mgrCalls
  /\ c.pc = "pause"
  /\ LET key == ServerIdOf(c.config, uuids)
         n   == Len(instances) + 1
         servers1 == MapSet(mgrServers, [id |-> key, inst |-> n])
         configs1 == MapSet(mgrConfigs, [id |-> key, config |-> c.config])
         waits == c.config.type = "HTTP"
         c1 == [c EXCEPT !.n = IF waits THEN @ ELSE 0,
                         !.inst = n,
                         !.pc = IF waits THEN "awaitInit" ELSE "returned",
                         !.statusAtReturn = IF waits THEN "" ELSE "starting",
                         !.after = [servers |-> servers1, configs |-> configs1]]
     IN /\ instances' = Append(instances, NewInstance(key, c.config))
        /\ mgrServers' = servers1
        /\ mgrConfigs' = configs1
        /\ uuids' = IF c.config.id = "" THEN uuids + 1 ELSE uuids
        /\ IF waits
           THEN mgrCalls' = (mgrCalls \ {c}) \cup {c1} /\ UNCHANGED lastCall
           ELSE mgrCalls' = mgrCalls \ {c} /\ lastCall' = c1
  /\ UNCHANGED <<mgrOps, lastEvent, frameVars, gwVars, authVars, clientVars, proxyVars,
                 routeVars, mwVars, nsVars, wiringVars, sseVars, ownerVars, nsAdminVars, epAdminVars>>

(***************************************************************************)
(* MCPServerManager.getServerByTool: the backend that owns a tool          *)
(***************************************************************************)
\* The keys of MCPServerManager.configs, in insertion order.
OwnerKeys == <<"k1", "k2">>

\* A stored config: config.id is the key it is stored under, or '' when the
\* key was generated by createServer.
OwnerConfigs(key) ==
  {[key |-> key, id |-> i, namespace |-> n, enabled |-> e]
     : i \in {key, ""}, n \in Namespaces, e \in BOOLEAN}

\* The runtime side of a backend: whether its instance is in this.servers
\* with the status running and a client, whether tools/list succeeds, and
\* the tool names its tools/list result carries.
OwnerRuntimes ==
  [running : BOOLEAN, lists : BOOLEAN, exposes : {{}, {"t"}}]

\* Tool names asked for: a backend tool and a made-up name.
OwnerTools == {"t", DemoTool(OwnerKeys[1])}

\* The NamespaceConfig of the namespace as the NamespaceManager holds it:
\* enabled, toolWhitelist and toolBlacklist (as the sets of their names).
OwnerFilters == [enabled : BOOLEAN, toolWhitelist : {{}, {"t"}}, toolBlacklist : {{}, {"t"}}]

NoFilters == [enabled |-> TRUE, toolWhitelist |-> {}, toolBlacklist |-> {}]

NoLookup == [configs |-> <<>>, runtime |-> <<>>, tool |-> "", pc |-> "idle", result |-> "null",
             tools |-> {}, filters |-> NoFilters]

\* The position of the entry stored under `id` in this.servers, 0 if none.
InstanceAt(id) ==
  IF \E i \in 1..Len(OwnerKeys) : OwnerKeys[i] = id
  THEN CHOOSE i \in 1..Len(OwnerKeys) : OwnerKeys[i] = id
  ELSE 0

\* MCPServerManager.getTools(serverId): [] unless the instance stored under
\* serverId is running with a client; else the client's list, which is the
\* made-up tool of that client when tools/list fails.
GetTools(runtime, serverId) ==
  LET i == InstanceAt(serverId)
  IN IF i = 0 \/ ~runtime[i].running
     THEN {}
     ELSE IF runtime[i].lists THEN runtime[i].exposes ELSE {DemoTool(OwnerKeys[i])}

\* The loop of getServerByTool from position i of the configs of the
\* namespace: the key of the first enabled config whose getTools(config.id)
\* has the tool, "null" when there is none.
RECURSIVE getServerByTool(_, _, _, _)
getServerByTool(configs, runtime, toolName, i) ==
  IF i > Len(configs)
  THEN "null"
  ELSE IF /\ configs[i].namespace = Namespace
          /\ configs[i].enabled
          /\ toolName \in GetTools(runtime, configs[i].id)
       THEN configs[i].key
       ELSE getServerByTool(configs, runtime, toolName, i + 1)

\* The loop of MCPProxy.aggregateServers from position i of the configs of
\* the namespace: the names of the tools getTools(config.id) returns for the
\* enabled ones, collected.  The NamespaceConfig is not an input: MCPProxy
\* holds an MCPServerManager and a MiddlewareEngine and no NamespaceManager.
RECURSIVE aggregateServers(_, _, _)
aggregateServers(configs, runtime, i) ==
  IF i > Len(configs)
  THEN {}
  ELSE (IF configs[i].namespace = Namespace /\ configs[i].enabled
        THEN GetTools(runtime, configs[i].id)
        ELSE {})
         \cup aggregateServers(configs, runtime, i + 1)

\* aggregateServers(Namespace) is called and returns.
AggregateCall ==
  /\ mgrLookup.pc = "idle"
  /\ mgrLookup' = [mgrLookup EXCEPT
                     !.pc = "aggregated",
                     !.tools = aggregateServers(mgrLookup.configs, mgrLookup.runtime, 1)]
  /\ UNCHANGED <<frameVars, gwVars, authVars, clientVars, proxyVars, routeVars, mwVars,
                 nsVars, wiringVars, sseVars, regVars, nsAdminVars, epAdminVars>>

\* getServerByTool(toolName, Namespace) is called and returns.
GetServerByTool ==
  /\ mgrLookup.pc = "idle"
  /\ mgrLookup' = [mgrLookup EXCEPT
                     !.pc = "done",
                     !.result = getServerByTool(mgrLookup.configs, mgrLookup.runtime,
                                                mgrLookup.tool, 1)]
  /\ UNCHANGED <<frameVars, gwVars, authVars, clientVars, proxyVars, routeVars, mwVars,
                 nsVars, wiringVars, sseVars, regVars, nsAdminVars, epAdminVars>>

(***************************************************************************)
(* NamespaceManager: creating, updating, deleting and validating           *)
(* namespaces; registering backends and middlewares.                       *)
(***************************************************************************)
MaxAdminOps == 3

\* initializeDefaultNamespaces: the three seeded namespaces.
SeededNamespaces ==
  <<[id |-> "default", name |-> "Default", enabled |-> TRUE, servers |-> <<>>,
     middlewares |-> <<>>],
    [id |-> "development", name |-> "Development", enabled |-> TRUE, servers |-> <<>>,
     middlewares |-> <<>>],
    [id |-> "production", name |-> "Production", enabled |-> TRUE, servers |-> <<>>,
     middlewares |-> <<>>]>>

\* Names given to createNamespace and updateNamespace: one in use, one free.
GivenNames == {"Default", "Team"}

\* crypto.randomUUID(): the n-th id generated for a namespace.
NamespaceUuid(n) == CASE n = 1 -> "n1" [] n = 2 -> "n2" [] n = 3 -> "n3" [] OTHER -> "n4"

\* Namespace ids the calls are made with: seeded ones, a created one, and
\* one that never exists.
GivenNamespaceIds == {"default", "development", "n1", "ghost"}

\* The updates of updateNamespace: a name, or the enabled flag.
GivenUpdates ==
  {[field |-> "name", name |-> n, enabled |-> TRUE] : n \in GivenNames}
    \cup {[field |-> "enabled", name |-> "", enabled |-> FALSE]}

\* The backend configs registered.
GivenServers == {[id |-> "a", namespace |-> n, enabled |-> e]
                   : n \in {"default", "ghost"}, e \in BOOLEAN}

\* The middleware configs registered.
GivenMiddlewares == {[id |-> "m", namespaces |-> <<"default">>, enabled |-> e]
                       : e \in BOOLEAN}

Manager == [ns |-> nsTable, servers |-> regServers, mws |-> regMiddlewares]

NoAdminCall == [op |-> "none", id |-> "", name |-> "", threw |-> FALSE, changed |-> FALSE,
                valid |-> FALSE, errors |-> <<>>, warnings |-> <<>>]

\* A call that throws: nothing is changed.
Rejected(st) == [st |-> st, threw |-> TRUE]

Accepted(st) == [st |-> st, threw |-> FALSE]

\* `array.includes(x)`
Has(seq, x) == \E i \in 1..Len(seq) : seq[i] = x

\* `array.filter(id => id !== x)`
Without(seq, x) == SelectSeq(seq, LAMBDA y : y # x)

\* createNamespace: a generated id; a name in use is refused.
createNamespace(st, name, n) ==
  IF \E i \in 1..Len(st.ns) : st.ns[i].name = name
  THEN Rejected(st)
  ELSE Accepted([st EXCEPT !.ns = MapSet(@, [id |-> NamespaceUuid(n + 1), name |-> name,
                                             enabled |-> TRUE, servers |-> <<>>,
                                             middlewares |-> <<>>])])

\* updateNamespace: `{ ...namespace, ...updates }` stored under the id.
updateNamespace(st, id, updates) ==
  IF ~MapHas(st.ns, id)
  THEN Rejected(st)
  ELSE LET namespace == MapGet(st.ns, id)
       IN Accepted([st EXCEPT !.ns = MapSet(@,
                      IF updates.field = "name"
                      THEN [namespace EXCEPT !.name = updates.name]
                      ELSE [namespace EXCEPT !.enabled = updates.enabled])])

\* The ids deleteNamespace refuses.
IsProtected_None(id) == FALSE

\* The ids deleteNamespace refuses.
IsProtected(id) == id \in {"default", "development", "production"}

\* deleteNamespace: a missing id and a protected id are refused.
deleteNamespace(st, id) ==
  IF ~MapHas(st.ns, id) \/ IsProtected(id)
  THEN Rejected(st)
  ELSE Accepted([st EXCEPT !.ns = MapDelete(@, id)])

\* addServerToNamespace: throws for a missing namespace, else the id joins
\* namespace.servers unless it is there.
addServerToNamespace(st, namespaceId, serverId) ==
  IF ~MapHas(st.ns, namespaceId)
  THEN Rejected(st)
  ELSE LET namespace == MapGet(st.ns, namespaceId)
       IN IF Has(namespace.servers, serverId)
          THEN Accepted(st)
          ELSE Accepted([st EXCEPT !.ns = MapSet(@, [namespace EXCEPT
                                                       !.servers = Append(@, serverId)])])

\* removeServerFromNamespace
removeServerFromNamespace(st, namespaceId, serverId) ==
  IF ~MapHas(st.ns, namespaceId)
  THEN Rejected(st)
  ELSE LET namespace == MapGet(st.ns, namespaceId)
       IN Accepted([st EXCEPT !.ns = MapSet(@, [namespace EXCEPT
                                                  !.servers = Without(@, serverId)])])

\* addMiddlewareToNamespace
addMiddlewareToNamespace(st, namespaceId, middlewareId) ==
  IF ~MapHas(st.ns, namespaceId)
  THEN Rejected(st)
  ELSE LET namespace == MapGet(st.ns, namespaceId)
       IN IF Has(namespace.middlewares, middlewareId)
          THEN Accepted(st)
          ELSE Accepted([st EXCEPT !.ns = MapSet(@, [namespace EXCEPT
                                                       !.middlewares = Append(@, middlewareId)])])

\* registerServer: servers.set, then addServerToNamespace with its failure
\* caught and logged; the call itself never throws.
registerServer(st, server) ==
  Accepted(addServerToNamespace([st EXCEPT !.servers = MapSet(@, server)],
                                server.namespace, server.id).st)

\* unregisterServer: removeServerFromNamespace of a registered server, with
\* its failure caught, then servers.delete.
unregisterServer(st, serverId) ==
  LET removed == IF MapHas(st.servers, serverId)
                 THEN removeServerFromNamespace(st, MapGet(st.servers, serverId).namespace,
                                                serverId).st
                 ELSE st
  IN Accepted([removed EXCEPT !.servers = MapDelete(@, serverId)])

\* registerMiddleware: middlewares.set, then addMiddlewareToNamespace for each
\* of its namespaces, failures caught.
RECURSIVE AddToEach(_, _, _)
AddToEach(st, middleware, i) ==
  IF i > Len(middleware.namespaces)
  THEN st
  ELSE AddToEach(addMiddlewareToNamespace(st, middleware.namespaces[i], middleware.id).st,
                 middleware, i + 1)

registerMiddleware(st, middleware) ==
  Accepted(AddToEach([st EXCEPT !.mws = MapSet(@, middleware)], middleware, 1))

\* The members of a namespace that are missing from a table, as findings.
Findings(members, table, kind, missing) ==
  LET hit == SelectSeq(members,
                       LAMBDA m : IF missing THEN ~MapHas(table, m)
                                  ELSE MapHas(table, m) /\ ~MapGet(table, m).enabled)
  IN [i \in 1..Len(hit) |-> [kind |-> kind, id |-> hit[i]]]

\* validateNamespaceConfiguration with a disabled member counted as an error.
validateNamespaceConfiguration_DisabledIsError(st, namespaceId) ==
  IF ~MapHas(st.ns, namespaceId)
  THEN [valid |-> FALSE, errors |-> <<[kind |-> "namespace_missing", id |-> namespaceId]>>,
        warnings |-> <<>>]
  ELSE LET namespace == MapGet(st.ns, namespaceId)
           errors == Findings(namespace.servers, st.servers, "server_missing", TRUE)
                       \o Findings(namespace.servers, st.servers, "server_disabled", FALSE)
                       \o Findings(namespace.middlewares, st.mws, "middleware_missing", TRUE)
           warnings == (IF Len(namespace.servers) = 0
                        THEN <<[kind |-> "no_servers", id |-> namespaceId]>> ELSE <<>>)
                         \o Findings(namespace.middlewares, st.mws, "middleware_disabled", FALSE)
       IN [valid |-> Len(errors) = 0, errors |-> errors, warnings |-> warnings]

\* validateNamespaceConfiguration: a missing namespace is one error; else a
\* warning for no servers, an error for each member id that is not registered,
\* a warning for each registered member that is disabled; valid when there
\* is no error.
validateNamespaceConfiguration(st, namespaceId) ==
  IF ~MapHas(st.ns, namespaceId)
  THEN [valid |-> FALSE, errors |-> <<[kind |-> "namespace_missing", id |-> namespaceId]>>,
        warnings |-> <<>>]
  ELSE LET namespace == MapGet(st.ns, namespaceId)
           errors == Findings(namespace.servers, st.servers, "server_missing", TRUE)
                       \o Findings(namespace.middlewares, st.mws, "middleware_missing", TRUE)
           warnings == (IF Len(namespace.servers) = 0
                        THEN <<[kind |-> "no_servers", id |-> namespaceId]>> ELSE <<>>)
                         \o Findings(namespace.servers, st.servers, "server_disabled", FALSE)
                         \o Findings(namespace.middlewares, st.mws, "middleware_disabled", FALSE)
       IN [valid |-> Len(errors) = 0, errors |-> errors, warnings |-> warnings]

\* A call of the manager is made: its outcome becomes the state, and the
\* observer records whether it threw and whether any table changed.
AdminCall(c, res) ==
  /\ adminOps < MaxAdminOps
  /\ adminOps' = adminOps + 1
  /\ nsTable' = res.st.ns
  /\ regServers' = res.st.servers
  /\ regMiddlewares' = res.st.mws
  /\ lastAdmin' = [c EXCEPT !.threw = res.threw, !.changed = res.st # Manager]
  /\ UNCHANGED <<frameVars, gwVars, authVars, clientVars, proxyVars, routeVars, mwVars,
                 nsVars, wiringVars, sseVars, regVars, ownerVars, epAdminVars>>

CreateNamespace(name) ==
  LET res == createNamespace(Manager, name, nsUuids)
  IN /\ AdminCall([NoAdminCall EXCEPT !.op = "create", !.name = name], res)
     /\ nsUuids' = nsUuids + 1

NamespaceUpdate(id, updates) ==
  /\ AdminCall([NoAdminCall EXCEPT !.op = "update", !.id = id, !.name = updates.name],
               updateNamespace(Manager, id, updates))
  /\ UNCHANGED nsUuids

DeleteNamespace(id) ==
  /\ AdminCall([NoAdminCall EXCEPT !.op = "delete", !.id = id], deleteNamespace(Manager, id))
  /\ UNCHANGED nsUuids

ServerRegister(server) ==
  /\ AdminCall([NoAdminCall EXCEPT !.op = "registerServer", !.id = server.namespace],
               registerServer(Manager, server))
  /\ UNCHANGED nsUuids

ServerUnregister(serverId) ==
  /\ AdminCall([NoAdminCall EXCEPT !.op = "unregisterServer"],
               unregisterServer(Manager, serverId))
  /\ UNCHANGED nsUuids

ServerAddedToNamespace(namespaceId, serverId) ==
  /\ AdminCall([NoAdminCall EXCEPT !.op = "addServer", !.id = namespaceId],
               addServerToNamespace(Manager, namespaceId, serverId))
  /\ UNCHANGED nsUuids

MiddlewareRegister(middleware) ==
  /\ AdminCall([NoAdminCall EXCEPT !.op = "registerMiddleware"],
               registerMiddleware(Manager, middleware))
  /\ UNCHANGED nsUuids

MiddlewareAddedToNamespace(namespaceId, middlewareId) ==
  /\ AdminCall([NoAdminCall EXCEPT !.op = "addMiddleware", !.id = namespaceId],
               addMiddlewareToNamespace(Manager, namespaceId, middlewareId))
  /\ UNCHANGED nsUuids

ValidateNamespace(id) ==
  LET v == validateNamespaceConfiguration(Manager, id)
  IN /\ AdminCall([NoAdminCall EXCEPT !.op = "validate", !.id = id, !.valid = v.valid,
                                      !.errors = v.errors, !.warnings = v.warnings],
                  Accepted(Manager))
     /\ UNCHANGED nsUuids

(***************************************************************************)
(* EndpointManager: creating, updating, deleting endpoints and switching   *)
(* their namespace.                                                        *)
(***************************************************************************)
MaxEpOps == 3

GivenPaths == {"/p", "/q"}

\* The namespace ids endpoints are bound to: a seeded one, and one that no
\* namespace has.
GivenEndpointNamespaces == {"default", "ghost"}

\* crypto.randomUUID(): the n-th id generated for an endpoint.
EndpointUuid(n) == CASE n = 1 -> "e1" [] n = 2 -> "e2" [] n = 3 -> "e3" [] OTHER -> "e4"

\* Endpoint ids the calls are made with.
GivenEndpointIds == {"e1", "e2"}

\* The updates of updateEndpoint: a path, a namespace, or the enabled flag.
GivenEndpointUpdates ==
  {[field |-> "path", path |-> x, namespace |-> "", enabled |-> TRUE] : x \in GivenPaths}
    \cup {[field |-> "namespace", path |-> "", namespace |-> n, enabled |-> TRUE]
            : n \in GivenEndpointNamespaces}
    \cup {[field |-> "enabled", path |-> "", namespace |-> "", enabled |-> FALSE]}

Endpoints == [endpoints |-> epTable, analytics |-> epAnalytics]

NoEpCall == [op |-> "none", id |-> "", path |-> "", namespace |-> "", threw |-> FALSE,
             changed |-> FALSE]

\* createEndpoint: a generated id; a path in use is refused; else the
\* endpoint and its analytics record are stored.
createEndpoint(st, config, n) ==
  IF \E i \in 1..Len(st.endpoints) : st.endpoints[i].path = config.path
  THEN Rejected(st)
  ELSE Accepted([endpoints |-> MapSet(st.endpoints,
                                      [id |-> EndpointUuid(n + 1), path |-> config.path,
                                       namespace |-> config.namespace, enabled |-> TRUE,
                                       lastAccessed |-> 0]),
                 analytics |-> st.analytics \cup {EndpointUuid(n + 1)}])

\* updateEndpoint: `{ ...endpoint, ...updates }` stored under the id.
updateEndpoint(st, id, updates) ==
  IF ~MapHas(st.endpoints, id)
  THEN Rejected(st)
  ELSE LET e == MapGet(st.endpoints, id)
       IN Accepted([st EXCEPT !.endpoints = MapSet(@,
                      CASE updates.field = "path" -> [e EXCEPT !.path = updates.path]
                        [] updates.field = "namespace" ->
                             [e EXCEPT !.namespace = updates.namespace]
                        [] OTHER -> [e EXCEPT !.enabled = updates.enabled])])

\* deleteEndpoint: the endpoint and its analytics record are deleted.
deleteEndpoint(st, id) ==
  IF ~MapHas(st.endpoints, id)
  THEN Rejected(st)
  ELSE Accepted([endpoints |-> MapDelete(st.endpoints, id),
                 analytics |-> st.analytics \ {id}])

\* switchNamespace: `endpoint.namespace = newNamespace`, stored under the id.
switchNamespace(st, endpointId, newNamespace) ==
  IF ~MapHas(st.endpoints, endpointId)
  THEN Rejected(st)
  ELSE Accepted([st EXCEPT !.endpoints =
                   MapSet(@, [MapGet(st.endpoints, endpointId) EXCEPT
                                !.namespace = newNamespace])])

\* A request inside createEndpointMiddleware, after
\* `await this.getEndpointByPath(path)`: `endpoint` is the object it found,
\* `shared` tells whether that object is still the one stored in the table.
NoEpRequest == [pc |-> "idle", endpoint |-> [id |-> ""], shared |-> FALSE]

\* The object a waiting request holds, after call c of the manager:
\* updateEndpoint stores a new object and deleteEndpoint removes the
\* object, so the request is left with the old one; switchNamespace writes
\* into the stored object, which the request sees when it holds that one.
HeldAfter(c, res) ==
  IF res.threw \/ epRequest.pc # "resolved" \/ epRequest.endpoint.id # c.id
  THEN epRequest
  ELSE CASE c.op \in {"update", "delete"} -> [epRequest EXCEPT !.shared = FALSE]
         [] c.op = "switch" /\ epRequest.shared ->
              [epRequest EXCEPT !.endpoint.namespace = c.namespace]
         [] OTHER -> epRequest

\* A call of the manager is made: its outcome becomes the state, and the
\* observer records whether it threw and whether a table changed.
EndpointCall(c, res) ==
  /\ epOps < MaxEpOps
  /\ epOps' = epOps + 1
  /\ epTable' = res.st.endpoints
  /\ epAnalytics' = res.st.analytics
  /\ lastEp' = [c EXCEPT !.threw = res.threw, !.changed = res.st # Endpoints]
  /\ epRequest' = HeldAfter(c, res)
  /\ UNCHANGED <<frameVars, gwVars, authVars, clientVars, proxyVars, routeVars, mwVars,
                 nsVars, wiringVars, sseVars, regVars, ownerVars, nsAdminVars>>

CreateEndpoint(config) ==
  /\ EndpointCall([NoEpCall EXCEPT !.op = "create", !.path = config.path,
                                   !.namespace = config.namespace],
                  createEndpoint(Endpoints, config, epUuids))
  /\ epUuids' = epUuids + 1

UpdateEndpoint(id, updates) ==
  /\ EndpointCall([NoEpCall EXCEPT !.op = "update", !.id = id, !.path = updates.path,
                                   !.namespace = updates.namespace],
                  updateEndpoint(Endpoints, id, updates))
  /\ UNCHANGED epUuids

DeleteEndpoint(id) ==
  /\ EndpointCall([NoEpCall EXCEPT !.op = "delete", !.id = id],
                  deleteEndpoint(Endpoints, id))
  /\ UNCHANGED epUuids

SwitchNamespace(endpointId, newNamespace) ==
  /\ EndpointCall([NoEpCall EXCEPT !.op = "switch", !.id = endpointId,
                                   !.namespace = newNamespace],
                  switchNamespace(Endpoints, endpointId, newNamespace))
  /\ UNCHANGED epUuids

\* createEndpointMiddleware, up to `await this.getEndpointByPath(path)`: the
\* first endpoint with the path is found; without one, or with a disabled
\* one, the request ends with 404.
getEndpointByPath(endpoints, path) ==
  IF \E i \in 1..Len(endpoints) : endpoints[i].path = path
  THEN endpoints[CHOOSE i \in 1..Len(endpoints) :
                   /\ endpoints[i].path = path
                   /\ \A j \in 1..(i - 1) : endpoints[j].path # path]
  ELSE [id |-> ""]

ResolveEndpoint(path) ==
  /\ epOps < MaxEpOps
  /\ epRequest.pc = "idle"
  /\ epOps' = epOps + 1
  /\ LET found == getEndpointByPath(epTable, path)
     IN /\ epRequest' = IF found.id = "" \/ ~found.enabled
                         THEN NoEpRequest
                         ELSE [pc |-> "resolved", endpoint |-> found, shared |-> TRUE]
        /\ lastEp' = [NoEpCall EXCEPT !.op = "request", !.id = found.id, !.path = path]
  /\ UNCHANGED <<epTable, epAnalytics, epUuids, frameVars, gwVars, authVars, clientVars,
                 proxyVars, routeVars, mwVars, nsVars, wiringVars, sseVars, regVars, ownerVars,
                 nsAdminVars>>

\* The middleware resumes: `endpoint.lastAccessed = new Date()` and
\* `this.endpoints.set(endpoint.id, endpoint)` with the object it holds.  The
\* date is the number of the step.  What follows in the middleware reads the
\* object and writes the rate-limit store and the analytics record, not
\* the endpoint table.
WriteLastAccessed ==
  /\ epRequest.pc = "resolved"
  /\ LET touched == [epRequest.endpoint EXCEPT !.lastAccessed = epOps]
     IN /\ epTable' = MapSet(epTable, touched)
        /\ lastEp' = [NoEpCall EXCEPT !.op = "touch", !.id = touched.id,
                                      !.changed = MapSet(epTable, touched) # epTable]
  /\ epRequest' = NoEpRequest
  /\ UNCHANGED <<epAnalytics, epUuids, epOps, frameVars, gwVars, authVars, clientVars,
                 proxyVars, routeVars, mwVars, nsVars, wiringVars, sseVars, regVars, ownerVars,
                 nsAdminVars>>

(***************************************************************************)
(* Specifications                                                          *)
(***************************************************************************)
\* A new NamespaceManager: the seeded namespaces, nothing registered.
NsAdminIdle ==
  /\ nsTable = SeededNamespaces
  /\ regServers = <<>>
  /\ regMiddlewares = <<>>
  /\ nsUuids = 0
  /\ adminOps = 0
  /\ lastAdmin = NoAdminCall

\* A new EndpointManager.
EpAdminIdle ==
  /\ epTable = <<>>
  /\ epAnalytics = {}
  /\ epUuids = 0
  /\ epOps = 0
  /\ lastEp = NoEpCall
  /\ epRequest = NoEpRequest

\* No getServerByTool call.
OwnerIdle == mgrLookup = NoLookup

\* A new MCPServerManager.
RegistryIdle ==
  /\ mgrServers = <<>>
  /\ mgrConfigs = <<>>
  /\ instances = <<>>
  /\ mgrCalls = {}
  /\ uuids = 0
  /\ mgrOps = 0
  /\ lastCall = NoMgrCall
  /\ lastEvent = NoMgrEvent

\* No connection yet.
SseIdle ==
  /\ sse = NoConnection
  /\ sseTicks = 0

\* The modules routes/trpc.ts and routes/mcp-endpoints.ts have been loaded:
\* each has constructed its own MCPProxy and EndpointManager.
WiringIdle ==
  /\ adminServers = {}
  /\ adminEndpoints = {}
  /\ routerEndpoints = {}
  /\ routerBackends = {}
  /\ reply = NoReply

\* A new NamespaceManager.
NamespaceIdle ==
  /\ namespaces = DefaultNamespace
  /\ servers = <<>>
  /\ nsOps = 0
  /\ aggregation = NoAggregation

RouteIdle == route = NoRoute

\* A new MiddlewareEngine.
MiddlewareIdle ==
  /\ middlewares = <<>>
  /\ mwOps = 0
  /\ pipeline = NoPipeline

FrameIdle ==
  /\ stream = <<>>
  /\ readPos = 0
  /\ buffer = <<>>
  /\ handled = <<>>

GatewayIdle ==
  /\ gwNow = 0
  /\ endpoint = [id |-> EndpointId, path |-> EndpointPath, enabled |-> TRUE,
                 auth |-> CHOOSE a \in AuthConfigs : a.type = "none" /\ ~a.whitelist.present
                                                     /\ ~a.blacklist.present,
                 rateLimit |-> NoRateLimit, cors |-> [enabled |-> FALSE], lastAccessed |-> 0,
                 transport |-> "HTTP"]
  /\ rateLimitStore = [k \in RateKeys |-> NoEntry]
  /\ analytics = [totalRequests |-> 0, successfulRequests |-> 0, failedRequests |-> 0,
                  averageResponseTime |-> 0, lastRequestAt |-> 0]
  /\ reqWindow = [k \in RateKeys |-> NoWindow]
  /\ lastReq = NoRequest
  /\ reqCount = 0

\* After MCPServerManager.createServer of a STDIO config has returned.
ProxyIdle ==
  /\ backends = [s \in ServerIds |->
                  [enabled |-> FALSE, namespace |-> Namespace, exposes |-> {},
                   inServers |-> FALSE, status |-> "stopped", isInitialized |-> FALSE]]
  /\ invoke = NoInvoke

ClientIdle ==
  /\ status = "starting"
  /\ inServers = TRUE
  /\ hasConfig = TRUE
  /\ proc = "spawning"
  /\ killed = FALSE
  /\ signals = <<>>
  /\ client = FALSE
  /\ isInitialized = FALSE
  /\ messageId = 1
  /\ pendingRequests = {}
  /\ timers = [id \in MsgIds |-> FALSE]
  /\ killTimers = [k \in StopIds |-> FALSE]
  /\ notifications = 0
  /\ calls = [id \in MsgIds |-> NoCall]
  /\ ops = [o \in OpIds |-> NoOp]
  /\ stopAwaiting = 0
  /\ stopCalls = 0
  /\ stopReturned = 0

NoAuthResult == [done |-> FALSE, result |-> AuthOk]

AuthIdle ==
  /\ authInput = [auth |-> CHOOSE a \in GatewayAuthConfigs : a.type = "none",
                  req |-> [path |-> "", ip |-> "",
                           headers |-> [apiKey |-> "", authorization |-> NoAuthorization]]]
  /\ authResult = NoAuthResult

InitAuth ==
  /\ EpAdminIdle
  /\ NsAdminIdle
  /\ OwnerIdle
  /\ RegistryIdle
  /\ SseIdle
  /\ WiringIdle
  /\ NamespaceIdle
  /\ MiddlewareIdle
  /\ RouteIdle
  /\ ClientIdle
  /\ ProxyIdle
  /\ FrameIdle
  /\ GatewayIdle
  /\ authInput \in {[auth |-> a, req |-> r] : a \in AuthConfigs, r \in {q \in Requests : q.path = EndpointPath}}
  /\ authResult = NoAuthResult

NextAuth == Authenticate

AuthSpec == InitAuth /\ [][NextAuth]_vars

InitFrame ==
  /\ EpAdminIdle
  /\ NsAdminIdle
  /\ OwnerIdle
  /\ RegistryIdle
  /\ SseIdle
  /\ WiringIdle
  /\ NamespaceIdle
  /\ MiddlewareIdle
  /\ RouteIdle
  /\ ClientIdle
  /\ ProxyIdle
  /\ GatewayIdle
  /\ AuthIdle
  /\ stream \in {Utf8Encode(t) : t \in SeqsUpTo(WireChars, MaxStreamChars)}
  /\ readPos = 0
  /\ buffer = <<>>
  /\ handled = <<>>

NextFrame == \E n \in 1..(2 * MaxStreamChars) : OnStdoutData(n)

FrameSpec == InitFrame /\ [][NextFrame]_vars

\* After createEndpoint: any endpoint configuration, empty rate-limit store
\* and zeroed analytics.
InitGateway ==
  /\ EpAdminIdle
  /\ NsAdminIdle
  /\ OwnerIdle
  /\ RegistryIdle
  /\ SseIdle
  /\ WiringIdle
  /\ NamespaceIdle
  /\ MiddlewareIdle
  /\ RouteIdle
  /\ ClientIdle
  /\ ProxyIdle
  /\ FrameIdle
  /\ AuthIdle
  /\ gwNow = 0
  /\ endpoint \in {[id |-> EndpointId, path |-> EndpointPath, enabled |-> e, auth |-> a,
                    rateLimit |-> r, cors |-> [enabled |-> c], lastAccessed |-> 0,
                    transport |-> "HTTP"]
                     : e \in BOOLEAN, a \in GatewayAuthConfigs, r \in RateLimitConfigs,
                       c \in BOOLEAN}
  /\ rateLimitStore = [k \in RateKeys |-> NoEntry]
  /\ analytics = [totalRequests |-> 0, successfulRequests |-> 0, failedRequests |-> 0,
                  averageResponseTime |-> 0, lastRequestAt |-> 0]
  /\ reqWindow = [k \in RateKeys |-> NoWindow]
  /\ lastReq = NoRequest
  /\ reqCount = 0

NextGateway ==
  \/ \E req \in GatewayRequests : EndpointMiddleware(req)
  \/ GwTick

GatewaySpec == InitGateway /\ [][NextGateway]_vars

\* Any set of configured backends, and a call for any tool name.
InitProxy ==
  /\ EpAdminIdle
  /\ NsAdminIdle
  /\ OwnerIdle
  /\ RegistryIdle
  /\ SseIdle
  /\ WiringIdle
  /\ NamespaceIdle
  /\ MiddlewareIdle
  /\ RouteIdle
  /\ FrameIdle
  /\ GatewayIdle
  /\ AuthIdle
  /\ ClientIdle
  /\ backends \in [ServerIds -> BackendStates]
  /\ invoke \in {[NoInvoke EXCEPT !.tool = t] : t \in ToolNames}

NextProxy ==
  \/ InvokeBegin
  \/ \E out \in SendOutcomes : BackendSettles(out)
  \/ \E s \in ServerIds, event \in {"exit", "error"} : BackendFails(s, event)

ProxySpec == InitProxy /\ [][NextProxy]_vars

\* The endpoints a request is routed on, and the requests sent to them.
RouteEndpoints ==
  {[id |-> EndpointId, path |-> EndpointPath, enabled |-> e, auth |-> a, rateLimit |-> r,
    cors |-> [enabled |-> FALSE], lastAccessed |-> 0, transport |-> t]
     : e \in BOOLEAN, a \in GatewayAuthConfigs, t \in {"HTTP", "SSE"},
       r \in {x \in RateLimitConfigs : x.window <= 1}}

RouteRequests == {r \in GatewayRequests : r.ip = "ip1"}

\* After createEndpoint, as InitGateway, with either transport.
InitRoute ==
  /\ EpAdminIdle
  /\ NsAdminIdle
  /\ OwnerIdle
  /\ RegistryIdle
  /\ SseIdle
  /\ WiringIdle
  /\ NamespaceIdle
  /\ MiddlewareIdle
  /\ ClientIdle
  /\ ProxyIdle
  /\ FrameIdle
  /\ AuthIdle
  /\ RouteIdle
  /\ gwNow = 0
  /\ endpoint \in RouteEndpoints
  /\ rateLimitStore = [k \in RateKeys |-> NoEntry]
  /\ analytics = [totalRequests |-> 0, successfulRequests |-> 0, failedRequests |-> 0,
                  averageResponseTime |-> 0, lastRequestAt |-> 0]
  /\ reqWindow = [k \in RateKeys |-> NoWindow]
  /\ lastReq = NoRequest
  /\ reqCount = 0

NextRoute ==
  \/ \E req \in RouteRequests : Request(req)
  \/ \E ok \in BOOLEAN : ProxySettles(ok)

RouteSpec == InitRoute /\ [][NextRoute]_vars

\* A new MiddlewareEngine; middlewares are added and removed, then one
\* pipeline runs whose stages return a payload, at once or by a promise.
InitMiddleware ==
  /\ EpAdminIdle
  /\ NsAdminIdle
  /\ OwnerIdle
  /\ RegistryIdle
  /\ SseIdle
  /\ WiringIdle
  /\ NamespaceIdle
  /\ ClientIdle
  /\ ProxyIdle
  /\ FrameIdle
  /\ GatewayIdle
  /\ AuthIdle
  /\ RouteIdle
  /\ MiddlewareIdle

NextMiddleware ==
  \/ \E cfg \in MwConfigs : AddMiddleware(cfg)
  \/ \E id \in MwIds : RemoveMiddleware(id)
  \/ \E kind \in PipelineKinds : StartPipeline(kind, Namespace)
  \/ \E outcome \in {"value", "resolves"} : RunStage(outcome)
  \/ StageSettles("resolves")

MiddlewareSpec == InitMiddleware /\ [][NextMiddleware]_vars

\* Enabled middlewares are added, then one pipeline runs whose stages do
\* whatever the code of a stage can do.
NextFailOpen ==
  \/ \E cfg \in {c \in MwConfigs : c.enabled /\ c.priority = 10} : AddMiddleware(cfg)
  \/ \E kind \in PipelineKinds : StartPipeline(kind, Namespace)
  \/ \E outcome \in StageOutcomes : RunStage(outcome)
  \/ \E outcome \in {"resolves", "rejects"} : StageSettles(outcome)

FailOpenSpec == InitMiddleware /\ [][NextFailOpen]_vars

\* The administrative interface registers, toggles and removes backends of
\* `default`, updates the namespace and asks for its tools.
InitNamespace ==
  /\ EpAdminIdle
  /\ NsAdminIdle
  /\ OwnerIdle
  /\ RegistryIdle
  /\ SseIdle
  /\ WiringIdle
  /\ NamespaceIdle
  /\ FrameIdle
  /\ GatewayIdle
  /\ AuthIdle
  /\ ClientIdle
  /\ ProxyIdle
  /\ RouteIdle
  /\ MiddlewareIdle

NextNamespace ==
  \/ \E id \in NsServerIds : RegisterServer(id)
  \/ \E id \in NsServerIds : UnregisterServer(id)
  \/ \E id \in NsServerIds, enabled \in BOOLEAN : ToggleServer(id, enabled)
  \/ \E updates \in NamespaceUpdates : UpdateNamespace(updates)
  \/ AggregateNamespaceTools

NamespaceSpec == InitNamespace /\ [][NextNamespace]_vars

\* The administrative interface creates backends and endpoints; requests are
\* POSTed to the gateway.
InitWiring ==
  /\ EpAdminIdle
  /\ NsAdminIdle
  /\ OwnerIdle
  /\ RegistryIdle
  /\ SseIdle
  /\ WiringIdle
  /\ NamespaceIdle
  /\ FrameIdle
  /\ GatewayIdle
  /\ AuthIdle
  /\ ClientIdle
  /\ ProxyIdle
  /\ RouteIdle
  /\ MiddlewareIdle

NextWiring ==
  \/ \E name \in BackendNames, namespace \in WiringNamespaces : ServersCreate(name, namespace)
  \/ \E path \in WiringPaths, namespace \in WiringNamespaces : EndpointsCreate(path, namespace)
  \/ \E path \in WiringPaths, body \in WiringBodies : GatewayPost(path, body)

WiringSpec == InitWiring /\ [][NextWiring]_vars

\* Connections to an endpoint, one after the other, while time passes.
InitSse ==
  /\ EpAdminIdle
  /\ NsAdminIdle
  /\ OwnerIdle
  /\ RegistryIdle
  /\ SseIdle
  /\ WiringIdle
  /\ NamespaceIdle
  /\ FrameIdle
  /\ GatewayIdle
  /\ AuthIdle
  /\ ClientIdle
  /\ ProxyIdle
  /\ RouteIdle
  /\ MiddlewareIdle

NextSse ==
  \/ \E transport \in Transports : PostResponds(transport)
  \/ \E transport \in Transports : GetSse(transport)
  \/ SseTick
  \/ PeerDisconnects

SseSpec == InitSse /\ [][NextSse]_vars

\* Backends are created, stopped and restarted while their processes start,
\* fail and exit.
InitRegistry ==
  /\ EpAdminIdle
  /\ NsAdminIdle
  /\ OwnerIdle
  /\ RegistryIdle
  /\ SseIdle
  /\ WiringIdle
  /\ NamespaceIdle
  /\ FrameIdle
  /\ GatewayIdle
  /\ AuthIdle
  /\ ClientIdle
  /\ ProxyIdle
  /\ RouteIdle
  /\ MiddlewareIdle

NextRegistry ==
  \/ \E cfg \in MgrConfigs : CreateServer(cfg)
  \/ \E c \in mgrCalls, ok \in BOOLEAN : InitSettles(c, ok)
  \/ \E i \in 1..MaxMgrCalls : ProcSpawned(i)
  \/ \E i \in 1..MaxMgrCalls, ok \in BOOLEAN : HandshakeSettles(i, ok)
  \/ \E i \in 1..MaxMgrCalls : ProcSpawnFailed(i)
  \/ \E i \in 1..MaxMgrCalls : ProcExited(i)
  \/ \E key \in CalledIds : StopServer(key)
  \/ \E c \in mgrCalls : StopResumes(c)
  \/ \E key \in CalledIds : RestartServer(key)
  \/ \E c \in mgrCalls : PauseEnds(c)

RegistrySpec == InitRegistry /\ [][NextRegistry]_vars

\* Two backends are registered, in any configuration and runtime state; a
\* tool is looked up.
InitOwner ==
  /\ EpAdminIdle
  /\ NsAdminIdle
  /\ \E c1 \in OwnerConfigs(OwnerKeys[1]), c2 \in OwnerConfigs(OwnerKeys[2]),
        r1 \in OwnerRuntimes, r2 \in OwnerRuntimes, t \in OwnerTools, f \in OwnerFilters :
        mgrLookup = [NoLookup EXCEPT !.configs = <<c1, c2>>, !.runtime = <<r1, r2>>,
                                     !.tool = t, !.filters = f]
  /\ RegistryIdle
  /\ SseIdle
  /\ WiringIdle
  /\ NamespaceIdle
  /\ FrameIdle
  /\ GatewayIdle
  /\ AuthIdle
  /\ ClientIdle
  /\ ProxyIdle
  /\ RouteIdle
  /\ MiddlewareIdle

NextOwner ==
  \/ GetServerByTool
  \/ AggregateCall

OwnerSpec == InitOwner /\ [][NextOwner]_vars

\* Namespaces are administered and validated.
InitNsAdmin ==
  /\ NsAdminIdle
  /\ EpAdminIdle
  /\ OwnerIdle
  /\ RegistryIdle
  /\ SseIdle
  /\ WiringIdle
  /\ NamespaceIdle
  /\ FrameIdle
  /\ GatewayIdle
  /\ AuthIdle
  /\ ClientIdle
  /\ ProxyIdle
  /\ RouteIdle
  /\ MiddlewareIdle

NextNsAdmin ==
  \/ \E name \in GivenNames : CreateNamespace(name)
  \/ \E id \in GivenNamespaceIds, updates \in GivenUpdates : NamespaceUpdate(id, updates)
  \/ \E id \in GivenNamespaceIds : DeleteNamespace(id)
  \/ \E server \in GivenServers : ServerRegister(server)
  \/ ServerUnregister("a")
  \/ \E id \in {"default", "development"} : ServerAddedToNamespace(id, "a")
  \/ \E middleware \in GivenMiddlewares : MiddlewareRegister(middleware)
  \/ MiddlewareAddedToNamespace("default", "m")
  \/ \E id \in GivenNamespaceIds : ValidateNamespace(id)

NsAdminSpec == InitNsAdmin /\ [][NextNsAdmin]_vars

\* The backends registered: under a seeded namespace, under a created one
\* and under one that does not exist.
MemberServers ==
  GivenServers \cup {[server EXCEPT !.namespace = NamespaceUuid(1)] : server \in GivenServers}

\* Backends are registered and unregistered, and namespaces created, deleted
\* and validated: the member lists are written by registerServer and
\* unregisterServer only.
NextMembership ==
  \/ \E name \in GivenNames : CreateNamespace(name)
  \/ \E id \in GivenNamespaceIds : DeleteNamespace(id)
  \/ \E server \in MemberServers : ServerRegister(server)
  \/ ServerUnregister("a")
  \/ \E id \in GivenNamespaceIds : ValidateNamespace(id)

MembershipSpec == InitNsAdmin /\ [][NextMembership]_vars

\* Endpoints are administered beside a new NamespaceManager.
InitEpAdmin ==
  /\ EpAdminIdle
  /\ NsAdminIdle
  /\ OwnerIdle
  /\ RegistryIdle
  /\ SseIdle
  /\ WiringIdle
  /\ NamespaceIdle
  /\ FrameIdle
  /\ GatewayIdle
  /\ AuthIdle
  /\ ClientIdle
  /\ ProxyIdle
  /\ RouteIdle
  /\ MiddlewareIdle

NextEpAdmin ==
  \/ \E path \in GivenPaths, namespace \in GivenEndpointNamespaces :
        CreateEndpoint([path |-> path, namespace |-> namespace])
  \/ \E id \in GivenEndpointIds, updates \in GivenEndpointUpdates : UpdateEndpoint(id, updates)
  \/ \E id \in GivenEndpointIds : DeleteEndpoint(id)
  \/ \E path \in GivenPaths : ResolveEndpoint(path)
  \/ WriteLastAccessed
  \/ \E id \in GivenEndpointIds, namespace \in GivenEndpointNamespaces :
        SwitchNamespace(id, namespace)

EpAdminSpec == InitEpAdmin /\ [][NextEpAdmin]_vars

InitClient ==
  /\ EpAdminIdle
  /\ NsAdminIdle
  /\ OwnerIdle
  /\ RegistryIdle
  /\ SseIdle
  /\ WiringIdle
  /\ NamespaceIdle
  /\ MiddlewareIdle
  /\ RouteIdle
  /\ FrameIdle
  /\ GatewayIdle
  /\ AuthIdle
  /\ ClientIdle
  /\ ProxyIdle

NextClient ==
  \/ ProcSpawn
  \/ ProcSpawnError
  \/ ProcError
  \/ ProcExit
  \/ \E kind \in {"getTools", "callTool"} : StartOp(kind)
  \/ \E id \in MsgIds, isError \in BOOLEAN : BackendReply(id, isError)
  \/ \E id \in MsgIds : RequestTimeout(id)
  \/ StopServerBegin
  \/ StopServerFinish
  \/ \E k \in StopIds : KillTimerFires(k)

ClientSpec == InitClient /\ [][NextClient]_vars

\* The steps that issue and settle calls: every step of the backend but
\* the force-kill timer of stopServer, which touches only process.killed and
\* the signals sent and is read by no settling path.
NextCalls ==
  \/ ProcSpawn
  \/ ProcSpawnError
  \/ ProcError
  \/ ProcExit
  \/ \E kind \in {"getTools", "callTool"} : StartOp(kind)
  \/ \E id \in MsgIds, isError \in BOOLEAN : BackendReply(id, isError)
  \/ \E id \in MsgIds : RequestTimeout(id)
  \/ StopServerBegin
  \/ StopServerFinish

\* The event loop runs every armed timer: a timeout callback that is due is
\* eventually run.
CallsFairSpec ==
  InitClient /\ [][NextCalls]_vars /\ \A id \in MsgIds : WF_vars(RequestTimeout(id))

(***************************************************************************)
(* Properties                                                              *)
(***************************************************************************)
\* C2: whatever the split of the byte stream into read events, once all of
\* it has been read the sequence of messages handed to handleMessage is the
\* one obtained when the whole stream arrives in a single read.
C2_SplitEquivalence ==
  readPos = Len(stream) => handled = OneReadMessages(stream)

\* The same equivalence restricted to streams without multi-byte characters.
AsciiSplitEquivalence ==
  (readPos = Len(stream) /\ \A i \in 1..Len(stream) : stream[i] \notin {"hi", "lo"})
    => /\ handled = OneReadMessages(stream)
       /\ buffer = OneReadRemainder(stream)

Max(a, b) == IF a >= b THEN a ELSE b

\* The fixed-window law for the endpoint's limit, with `cap` allowed requests
\* per window: the cap is never exceeded; a request arriving in an open
\* window whose counter has reached the limit is rejected and told that
\* window's reset time; a request arriving with no open window (the first
\* one, or the first after the reset time) is allowed and opens a window.
RateLimitLaw(cap) ==
  (endpoint.rateLimit.present /\ endpoint.rateLimit.enabled) =>
    /\ \A k \in RateKeys : reqWindow[k].allowed <= cap
    /\ (lastReq.handled /\ lastReq.limited) =>
         LET w    == lastReq.windowBefore
             open == WindowOpenAt(w, lastReq.at)
             key  == RateKey(endpoint.id, lastReq.ip)
         IN /\ (open /\ w.allowed >= endpoint.rateLimit.requests) =>
                 /\ lastReq.status = 429
                 /\ lastReq.told
                 /\ lastReq.resetTime = w.resetTime
            /\ (open /\ w.allowed < endpoint.rateLimit.requests) => lastReq.status = 200
            /\ ~open =>
                 /\ lastReq.status = 200
                 /\ rateLimitStore[key] =
                      Entry(1, lastReq.at + endpoint.rateLimit.window * MsPerSecond)

\* C8 as stated: for any configured limit L the requests allowed in one
\* window never exceed L, requests at or above the limit are rejected with
\* the reset time, and the first request after the reset time is allowed.
C8_RateLimitAnyLimit == RateLimitLaw(endpoint.rateLimit.requests)

\* C8 amended: the first request of a window is always allowed, so the
\* requests allowed in one window never exceed max(L, 1); the rest as stated.
C8_RateLimit == RateLimitLaw(Max(endpoint.rateLimit.requests, 1))

\* A request is allowed and opens a new window after a window in which the
\* limit was reached and a request was rejected.
C8_Witness ==
  /\ lastReq.handled /\ lastReq.limited /\ lastReq.status = 200
  /\ lastReq.windowBefore.open
  /\ lastReq.at > lastReq.windowBefore.resetTime
  /\ endpoint.rateLimit.requests >= 1
  /\ lastReq.windowBefore.allowed = endpoint.rateLimit.requests
  /\ lastReq.windowBefore.denied >= 1

\* C9: a request whose network identity is on the deny-list is rejected,
\* for every auth type and whatever credentials it presents.
C9_DenyListRejects ==
  (authResult.done /\ Includes(authInput.auth.blacklist, authInput.req.ip))
    => ~authResult.result.success

\* C10: a configured, non-empty allow-list rejects every identity not in it;
\* an absent or empty allow-list imposes no restriction: the outcome is the
\* one of the same policy without an allow-list.
C10_AllowListOnlyWhenNonEmpty ==
  authResult.done =>
    LET auth == authInput.auth
        req  == authInput.req
    IN /\ (auth.whitelist.present /\ auth.whitelist.items # {}
             /\ req.ip \notin auth.whitelist.items) => ~authResult.result.success
       /\ (~auth.whitelist.present \/ auth.whitelist.items = {}) =>
            authResult.result = authenticateRequest(req, [auth EXCEPT !.whitelist = NoList])

\* Calls of a process-backed connection: a message is written only after its
\* entry was registered; an entry in the table is unsettled and has its
\* timer armed; an entry that left the table was settled exactly once, by
\* the reply, the timeout, a write failure, or a process error, process exit
\* or disconnect; no call is ever settled twice.
CallsSettledOnce ==
  \A id \in MsgIds :
    /\ calls[id].written => calls[id].registered
    /\ calls[id].settles <= 1
    /\ id \in pendingRequests =>
         /\ calls[id].registered
         /\ calls[id].settles = 0
         /\ timers[id]
    /\ (calls[id].registered /\ id \notin pendingRequests) =>
         /\ calls[id].settles = 1
         /\ calls[id].outcome \in {"resolved", "error_reply", "timeout", "write_failed",
                                   "process_error", "process_exited", "disconnected"}

\* C1: under every interleaving of reply, timeout, process error, process
\* exit and disconnect, every call is registered before it is written and
\* settled exactly once, and no entry stays in the pending table forever.
C1_SettledExactlyOnce ==
  /\ []CallsSettledOnce
  /\ \A id \in MsgIds : []<>(id \notin pendingRequests)

\* One call settled by its reply and another by its timeout, none pending.
C1_Witness ==
  /\ pendingRequests = {}
  /\ \E a, b \in MsgIds : /\ calls[a].outcome = "resolved"
                          /\ calls[b].outcome = "timeout"

\* C3: every call pending when stopServer is called is settled with the
\* disconnect failure, and once stopServer has returned (the runtime entry
\* is released) no call issued before the stop is still unsettled.
C3_StopRejectsPending ==
  \A id \in MsgIds :
    /\ calls[id].pendingAtStop =>
         /\ calls[id].outcome = "disconnected"
         /\ calls[id].settles = 1
    /\ (stopReturned > 0 /\ calls[id].beforeStop) =>
         /\ calls[id].settles >= 1
         /\ id \notin pendingRequests

\* stopServer has returned after rejecting a call that was in flight.
C3_Witness ==
  /\ stopReturned > 0
  /\ ~inServers
  /\ \E id \in MsgIds : calls[id].pendingAtStop /\ calls[id].outcome = "disconnected"

\* C4: the status is `running` only after the initialize handshake has
\* completed successfully, and a failed handshake leaves the status `error`.
C4_RunningOnlyAfterHandshake ==
  /\ status = "running" => (ops[0].phase = "done" /\ ops[0].result = "value")
  /\ (ops[0].phase = "done" /\ ops[0].result = "threw") => status = "error"

\* C5: a tool call whose request timed out fails: the timeout failure is
\* delivered to the caller of callTool and the pending entry is removed.
C5_TimeoutFailsCallTool ==
  \A o \in UserOps :
    (/\ ops[o].kind = "callTool"
     /\ ops[o].phase = "done"
     /\ calls[ops[o].msg].outcome = "timeout")
      => /\ ops[o].result = "threw"
         /\ ops[o].msg \notin pendingRequests

\* C6: a call whose owning backend was not running at call time, answered
\* with an error envelope, timed out or closed mid-call fails: it never
\* returns a result to the caller of MCPProxy.callTool.
C6_BackendFailureSurfaces ==
  (invoke.pc = "done" /\ invoke.fault # "none") => invoke.outcome.kind = "threw"

\* Some enabled backend of the namespace exposes the tool asked for.
ToolExposed ==
  \E s \in ServerIds : /\ backends[s].enabled
                       /\ backends[s].namespace = Namespace
                       /\ invoke.tool \in backends[s].exposes

\* C7: a call for a tool that no enabled backend of the namespace exposes
\* fails with the tool-not-found error, and no request was sent to any
\* backend in its course.
C7_UnknownToolNotFound ==
  (invoke.pc = "done" /\ ~ToolExposed) =>
     /\ invoke.outcome = [kind |-> "threw", what |-> "ToolNotFound"]
     /\ invoke.sent = {}

\* The same, counting only tools/call requests as contact with a backend.
UnknownToolNeverCalled ==
  (invoke.pc = "done" /\ ~ToolExposed) =>
     /\ invoke.outcome = [kind |-> "threw", what |-> "ToolNotFound"]
     /\ \A m \in invoke.sent : m.method # "tools/call"

\* C11: every request is recorded in the analytics exactly once and only
\* after its outcome is known: while its dispatch is outstanding it is not
\* yet recorded, and once it has ended the recorded failures and successes
\* are the requests that ended in a failure and in a success.
C11_RecordedOnceAfterOutcome ==
  /\ route.pc = "awaiting" => analytics.totalRequests = reqCount - 1
  /\ route.pc # "awaiting" =>
       /\ analytics.totalRequests = reqCount
       /\ analytics.failedRequests = route.failed
       /\ analytics.successfulRequests = route.succeeded

\* C12: a request rejected at admission (404, 401 or 429) ends there: the
\* POST handler never runs for it, so no call of MCPProxy, which is the only
\* way to the backends and to the middleware stages, is made for it.
C12_RejectedNeverDispatched ==
  (lastReq.handled /\ lastReq.status \in {401, 404, 429}) =>
     /\ route.pc = "done"
     /\ route.proxyCalls = 0
     /\ route.body = NoBody
     /\ route.envelope = NoEnvelope

\* A request rejected by the rate limit after an earlier one was dispatched.
C12_Witness ==
  /\ lastReq.status = 429
  /\ route.pc = "done"
  /\ route.succeeded >= 1

\* C13: a stage that raises hands on the payload it was given, the stages
\* after it still run and the pipeline call does not raise; a stage that
\* returns nothing hands on the payload it was given.
C13_MiddlewareFailOpen ==
  /\ \A i \in 1..Len(pipeline.log) :
       pipeline.log[i].outcome \in {"throws", "mutates_throws", "rejects", "nothing"}
         => pipeline.log[i].output = pipeline.log[i].input
  /\ ~pipeline.raised
  /\ pipeline.pc = "done" => Len(pipeline.log) = Len(pipeline.stages)

\* The place of a registered middleware in the Map, and its priority.
MwPos(id) == CHOOSE i \in 1..Len(middlewares) : middlewares[i].id = id

MwPriority(id) == middlewares[MwPos(id)].priority

DirectionMatches(kind, type) ==
  CASE kind = "tools" -> type = "response"
    [] kind = "request" -> type \in {"request", "bidirectional"}
    [] kind = "response" -> type \in {"response", "bidirectional"}

\* C15: the stages a pipeline applies to a payload of namespace N are
\* exactly the registered middlewares that are enabled, bound to N and of a
\* matching direction.
C15_ExactlyTheBoundStages ==
  pipeline.pc = "done" =>
    {pipeline.log[i].id : i \in 1..Len(pipeline.log)}
      = {middlewares[i].id : i \in {k \in 1..Len(middlewares) :
                                      /\ middlewares[k].enabled
                                      /\ pipeline.namespace \in middlewares[k].namespaces
                                      /\ DirectionMatches(pipeline.kind, middlewares[k].type)}}

\* The names the filters of a namespace let through.
PassesFilters(ns, t) ==
  /\ ns.toolWhitelist # {} => t \in ns.toolWhitelist
  /\ t \notin ns.toolBlacklist

\* The tools discovered from the enabled registered members, in member order.
RECURSIVE MemberTools(_, _)
MemberTools(ids, map) ==
  IF ids = <<>> THEN <<>>
  ELSE LET rest == MemberTools(Tail(ids), map)
       IN IF \E i \in 1..Len(map) : map[i].id = Head(ids) /\ map[i].enabled
          THEN DiscoveredTools(Head(ids)) \o rest
          ELSE rest

\* C16: for an enabled namespace, tools(ns) is the concatenation, in member
\* order, of the tools of its enabled member backends, restricted to the
\* allow-list when it is non-empty, and without the names of the deny-list.
C16_AggregationFilterLaw ==
  aggregation.called /\ aggregation.namespace.enabled =>
    aggregation.result
      = SelectSeq(MemberTools(aggregation.namespace.servers, aggregation.servers),
                  LAMBDA t : PassesFilters(aggregation.namespace, t))

\* What the code does return: the law over the one tool getToolsFromServer
\* makes up for each enabled member.
RECURSIVE PlaceholderTools(_, _)
PlaceholderTools(ids, map) ==
  IF ids = <<>> THEN <<>>
  ELSE LET rest == PlaceholderTools(Tail(ids), map)
       IN IF \E i \in 1..Len(map) : map[i].id = Head(ids) /\ map[i].enabled
          THEN <<ServerName(Head(ids)) \o "_tool_1">> \o rest
          ELSE rest

FilterLawOverPlaceholders ==
  aggregation.called /\ aggregation.namespace.enabled =>
    aggregation.result
      = SelectSeq(PlaceholderTools(aggregation.namespace.servers, aggregation.servers),
                  LAMBDA t : PassesFilters(aggregation.namespace, t))

\* C17: tools(ns) of a disabled namespace is empty, whatever its members,
\* their enabled flags and its lists, and no member backend is queried.
C17_DisabledNamespaceEmpty ==
  aggregation.called /\ ~aggregation.namespace.enabled =>
    aggregation.result = <<>> /\ aggregation.queried = <<>>

\* The tools of a disabled namespace with an enabled registered member were
\* asked for.
C17_Witness ==
  /\ aggregation.called
  /\ ~aggregation.namespace.enabled
  /\ aggregation.result = <<>>
  /\ \E i \in 1..Len(aggregation.servers) :
       /\ aggregation.servers[i].enabled
       /\ IncludesId(aggregation.namespace.servers, aggregation.servers[i].id)

\* C18: once backend B exposing `echo` has been created in `default` and an
\* endpoint /gw/d bound to `default` with auth `none` has been created through
\* the administrative interface, a tools/list POSTed to /gw/d returns a
\* result containing `echo`, and a tools/call of `echo` with id 2 returns a
\* success envelope with id 2.
C18_EndToEnd ==
  reply.sent /\ reply.afterSetUp /\ reply.path = "/gw/d" =>
    /\ reply.http = 200
    /\ reply.kind = "result"
    /\ reply.body.method = "tools/list" => "echo" \in reply.listed
    /\ reply.body.method = "tools/call" => reply.id = 2

\* The codes of the envelope answering an admitted well-formed request.
EnvelopeCodes ==
  route.pc = "done" /\ route.admitted /\ route.body.jsonrpc = "2.0" =>
    /\ route.envelope.kind \in {"result", "error"}
    /\ route.body.method \notin ListMethods \cup {"tools/call"}
         => route.envelope.kind = "error" /\ route.envelope.code = -32601
    /\ route.body.method = "tools/call" /\ ~CallToolRequestParses(route.body)
         => route.envelope.kind = "error" /\ route.envelope.code = -32602
    /\ (/\ route.envelope.kind = "error"
        /\ (\/ route.body.method \in ListMethods
            \/ route.body.method = "tools/call" /\ CallToolRequestParses(route.body)))
         => route.envelope.code = -32603

\* C19: the response to an admitted well-formed JSON-RPC request carries the
\* id of the request and exactly one of result and error; an unknown method
\* yields -32601, a schema violation -32602 and an internal or backend
\* failure -32603.
C19_EnvelopeIdAndCodes ==
  /\ EnvelopeCodes
  /\ route.pc = "done" /\ route.admitted /\ route.body.jsonrpc = "2.0"
       => route.envelope.id = route.body.id

\* The number of events of a type written on the connection.
EventCount(type) == Cardinality({i \in 1..Len(sse.events) : sse.events[i] = type})

\* What GET P/sse does on an SSE endpoint: a ping at every interval while
\* the peer is connected, and after the disconnect no timer and no event.
GetStreamKeepAlive ==
  sse.route = "get" /\ sse.http = 200 =>
    /\ sse.open => EventCount("ping") = sse.age \div KeepAliveMs
    /\ ~sse.open => ~sse.keepAlive /\ Len(sse.events) = sse.eventsAtClose

\* C20: on an event-stream endpoint the JSON-RPC response to a request is
\* sent as exactly one event, then the connection emits a ping at every
\* keep-alive interval for as long as the peer stays connected; once the
\* peer has disconnected the timer is stopped and no further event is
\* written.
C20_OneEventThenPings ==
  sse.route = "post" /\ sse.transport = "SSE" =>
    /\ EventCount("response") = 1
    /\ sse.events[1] = "response"
    /\ sse.open => EventCount("ping") = sse.age \div KeepAliveMs
    /\ ~sse.open => ~sse.keepAlive /\ Len(sse.events) = sse.eventsAtClose

\* C21: stopServer is idempotent: a stopServer call made right after a
\* stopServer of the same id has returned does not fail, signals no process,
\* and leaves the config table and the runtime table as it found them, that
\* is as one call leaves them: without an entry of the id.
C21_StopIdempotent ==
  lastCall.op = "stop" /\ lastCall.repeat =>
    /\ ~lastCall.threw
    /\ ~lastCall.signalled
    /\ lastCall.after = lastCall.before
    /\ ~MapHas(lastCall.after.servers, lastCall.key)

\* A repeated stop has returned while the process the first stop signalled
\* is still alive.
C21_Witness ==
  /\ lastCall.op = "stop"
  /\ lastCall.repeat
  /\ \E i \in 1..Len(instances) : /\ instances[i].key = lastCall.key
                                  /\ instances[i].stopped
                                  /\ instances[i].proc = "alive"

\* What restartServer leaves for an id given in the config: the stored config
\* and a new runtime entry under that id, when no other call ran meanwhile.
RestartKeepsGivenId ==
  /\ lastCall.op = "restart"
  /\ lastCall.hadConfig
  /\ lastCall.config.id # ""
  /\ mgrOps = 2
  => /\ MapHas(lastCall.after.configs, lastCall.key)
     /\ MapGet(lastCall.after.configs, lastCall.key).config = lastCall.config
     /\ MapHas(lastCall.after.servers, lastCall.key)
     /\ MapGet(lastCall.after.servers, lastCall.key).inst = lastCall.inst

\* C22: restartServer of an id with a stored config ends with that config
\* stored and a new runtime entry under the same id; restartServer of an id
\* with no stored config throws and leaves both tables unchanged.
C22_RestartReplaces ==
  lastCall.op = "restart" =>
    IF lastCall.hadConfig
    THEN /\ MapHas(lastCall.after.configs, lastCall.key)
         /\ MapGet(lastCall.after.configs, lastCall.key).config = lastCall.config
         /\ MapHas(lastCall.after.servers, lastCall.key)
         /\ MapGet(lastCall.after.servers, lastCall.key).inst = lastCall.inst
    ELSE lastCall.threw /\ lastCall.after = lastCall.before

\* What createServer does for a process backend: it returns at once, with
\* the status still starting.
StdioCreateReturnsAtOnce ==
  /\ \A c \in mgrCalls : c.op = "create" => c.config.type # "STDIO"
  /\ lastCall.op = "create" /\ lastCall.config.type = "STDIO"
       => lastCall.statusAtReturn = "starting"

\* C23: createServer returns the id without waiting for the handshake, for a
\* process backend and for an HTTP backend alike: the call is never left
\* waiting, and the status at its return is still starting.
C23_CreateReturnsWhileStarting ==
  /\ \A c \in mgrCalls : c.op # "create"
  /\ lastCall.op = "create" => lastCall.statusAtReturn = "starting"

\* What a failed spawn or a failed handshake leaves: the status error, the
\* runtime entry and the config.
SpawnOrHandshakeErrorKept ==
  lastEvent.kind \in {"spawn", "handshake"} =>
    lastEvent.status = "error" /\ lastEvent.hasEntry /\ lastEvent.hasConfig

\* C30: after an error of a backend nobody stopped (a failed spawn, a failed
\* handshake, the process exiting on its own) the status read back is error
\* and the runtime entry and the config are still stored.
C30_ErrorKeepsEntry ==
  lastEvent.kind # "none" =>
    lastEvent.status = "error" /\ lastEvent.hasEntry /\ lastEvent.hasConfig

\* The discovery result of the backend at position i: what its tools/list
\* returned, nothing when it is not running or the request failed.
Discovered(i) ==
  IF mgrLookup.runtime[i].running /\ mgrLookup.runtime[i].lists
  THEN mgrLookup.runtime[i].exposes
  ELSE {}

\* The enabled backends of the namespace whose discovery result has the tool.
Owners ==
  {i \in 1..Len(mgrLookup.configs) : /\ mgrLookup.configs[i].namespace = Namespace
                                     /\ mgrLookup.configs[i].enabled
                                     /\ mgrLookup.tool \in Discovered(i)}

\* The first of them in registration order, "null" when there is none.
FirstOwner ==
  IF Owners = {} THEN "null"
  ELSE mgrLookup.configs[CHOOSE i \in Owners : \A j \in Owners : i <= j].key

\* What holds of getServerByTool: a disabled backend and a backend of another
\* namespace are never returned, and when every config carries its id and
\* every tools/list succeeds the first owner in registration order is.
OwnerLawForGivenIds ==
  mgrLookup.pc = "done" =>
    /\ \A i \in 1..Len(mgrLookup.configs) :
         mgrLookup.result = mgrLookup.configs[i].key =>
           mgrLookup.configs[i].enabled /\ mgrLookup.configs[i].namespace = Namespace
    /\ (\A i \in 1..Len(mgrLookup.configs) :
          /\ mgrLookup.configs[i].id = mgrLookup.configs[i].key
          /\ mgrLookup.runtime[i].running => mgrLookup.runtime[i].lists)
         => mgrLookup.result = FirstOwner

\* C24: getServerByTool returns the first backend, in registration order,
\* among the enabled backends of the namespace whose current discovery result
\* contains the tool name, and none when there is no such backend.
C24_FirstOwnerInOrder ==
  mgrLookup.pc = "done" => mgrLookup.result = FirstOwner

\* The member ids of a namespace that a table does not hold.
MissingIn(members, table) == {members[i] : i \in {j \in 1..Len(members) : ~MapHas(table, members[j])}}

\* The member ids of a namespace that a table holds disabled.
DisabledIn(members, table) ==
  {members[i] : i \in {j \in 1..Len(members) : /\ MapHas(table, members[j])
                                                /\ ~MapGet(table, members[j]).enabled}}

\* The findings of a list, as a set.
FindingSet(list) == {list[i] : i \in 1..Len(list)}

\* C25: validateNamespaceConfiguration answers valid exactly when its error
\* list is empty; each member backend or middleware id that is not registered
\* is an error, and a namespace without backends or a registered member that
\* is disabled gives a warning and no error.
C25_ValidExactlyWithoutErrors ==
  lastAdmin.op = "validate" =>
    /\ lastAdmin.valid <=> lastAdmin.errors = <<>>
    /\ MapHas(nsTable, lastAdmin.id) =>
         LET namespace == MapGet(nsTable, lastAdmin.id)
         IN /\ FindingSet(lastAdmin.errors) =
                 {[kind |-> "server_missing", id |-> m]
                    : m \in MissingIn(namespace.servers, regServers)}
                 \cup {[kind |-> "middleware_missing", id |-> m]
                         : m \in MissingIn(namespace.middlewares, regMiddlewares)}
            /\ FindingSet(lastAdmin.warnings) =
                 (IF Len(namespace.servers) = 0
                  THEN {[kind |-> "no_servers", id |-> lastAdmin.id]} ELSE {})
                 \cup {[kind |-> "server_disabled", id |-> m]
                         : m \in DisabledIn(namespace.servers, regServers)}
                 \cup {[kind |-> "middleware_disabled", id |-> m]
                         : m \in DisabledIn(namespace.middlewares, regMiddlewares)}

\* A namespace with a disabled backend and no missing member has been found
\* valid, with a warning.
C25_Witness ==
  /\ lastAdmin.op = "validate"
  /\ lastAdmin.valid
  /\ \E i \in 1..Len(lastAdmin.warnings) : lastAdmin.warnings[i].kind = "server_disabled"

\* A namespace with a member that is not registered has been found invalid.
ValidateFindsMissing ==
  /\ lastAdmin.op = "validate"
  /\ ~lastAdmin.valid
  /\ \E i \in 1..Len(lastAdmin.errors) : lastAdmin.errors[i].kind = "server_missing"

\* What createNamespace does with a name in use: it throws and changes
\* nothing.
CreateRefusesUsedName ==
  lastAdmin.op = "create" /\ lastAdmin.threw => ~lastAdmin.changed

\* C26: no two namespaces of the table have the same name, in every state
\* reached through createNamespace, updateNamespace and deleteNamespace, and a
\* createNamespace that is refused changes nothing.
C26_NamesUnique ==
  /\ \A i, j \in 1..Len(nsTable) : i # j => nsTable[i].name # nsTable[j].name
  /\ lastAdmin.op = "create" /\ lastAdmin.threw => ~lastAdmin.changed

\* C27: the seeded namespaces default, development and production are in the
\* table in every state, and deleteNamespace of one of them throws and
\* changes nothing.
C27_SeededNamespacesStay ==
  /\ \A id \in {"default", "development", "production"} : MapHas(nsTable, id)
  /\ lastAdmin.op = "delete" /\ lastAdmin.id \in {"default", "development", "production"}
       => lastAdmin.threw /\ ~lastAdmin.changed

\* deleteNamespace of a seeded namespace has been refused, after another
\* namespace was created.
C27_Witness ==
  /\ lastAdmin.op = "delete"
  /\ lastAdmin.id = "default"
  /\ lastAdmin.threw
  /\ Len(nsTable) > 3

\* What registerServer does under a namespace that does not exist: it does not
\* throw, and the backend stays registered.
RegisterUnderMissingNamespace ==
  lastAdmin.op = "registerServer" /\ ~MapHas(nsTable, lastAdmin.id) =>
    lastAdmin.threw /\ ~lastAdmin.changed

\* What createEndpoint does with a path in use: it throws and changes neither
\* the endpoint table nor the analytics table.
CreateRefusesUsedPath ==
  lastEp.op = "create" /\ lastEp.threw => ~lastEp.changed

\* C28: no two endpoints have the same path, in every state reached through
\* createEndpoint, updateEndpoint, deleteEndpoint and switchNamespace, and a
\* createEndpoint that is refused changes neither table.
C28_PathsUnique ==
  /\ \A i, j \in 1..Len(epTable) : i # j => epTable[i].path # epTable[j].path
  /\ lastEp.op = "create" /\ lastEp.threw => ~lastEp.changed

\* C29: createEndpoint bound to a namespace that does not exist, and
\* switchNamespace to one, throw and change no table.
C29_MissingNamespaceRefused ==
  lastEp.op \in {"create", "switch"} /\ ~MapHas(nsTable, lastEp.namespace) =>
    lastEp.threw /\ ~lastEp.changed

\* C31: a reply settles exactly the pending call whose identifier it
\* carries, in whatever order replies arrive: that call is settled once more
\* and leaves the pending table, and no other call issued before is touched.
\* A reply whose identifier has no pending entry is discarded: no call is
\* settled, the pending table and the connection stay as they are.
C31_RepliesByIdentifier ==
  \A id \in MsgIds, isError \in BOOLEAN, throws \in BOOLEAN :
    LET c2 == handleMessage(Cur, id, isError, throws)
    IN IF id \in pendingRequests
       THEN /\ c2.calls[id].settles = calls[id].settles + 1
            /\ c2.calls[id].outcome = IF isError THEN "error_reply" ELSE "resolved"
            /\ id \notin c2.pendingRequests
            /\ \A other \in MsgIds \ {id} :
                 calls[other].registered =>
                   /\ c2.calls[other] = calls[other]
                   /\ other \in c2.pendingRequests <=> other \in pendingRequests
       ELSE c2 = Cur

\* The reply of the call issued second has settled it while the call issued
\* first is still pending, and the process is alive.
C31_Witness ==
  /\ calls[2].outcome = "resolved"
  /\ 1 \in pendingRequests
  /\ proc = "alive"

\* A call has timed out while the process lives on: its reply, if it comes,
\* finds no pending entry.
LateReplyPossible ==
  \E id \in MsgIds : /\ calls[id].outcome = "timeout"
                     /\ calls[id].written
                     /\ proc = "alive"
                     /\ pendingRequests # {}

\* Whether a signal is among those sent to the process.
Sent(signal) == \E i \in 1..Len(signals) : signals[i] = signal

\* What the force-kill timer of stopServer does: it never sends SIGKILL.
ForceKillNeverSent == ~Sent("SIGKILL")

\* C32: stopServer of a process backend sends SIGTERM, and when the grace
\* period has expired with the process still alive a SIGKILL has been sent;
\* a process that has exited receives no SIGKILL.
C32_ForcedKillAfterGrace ==
  \A k \in StopIds :
    stopCalls >= k /\ Sent("SIGTERM") /\ ~killTimers[k] /\ proc = "alive"
      => Sent("SIGKILL")

\* The enabled backends of the namespace.
Members ==
  {i \in 1..Len(mgrLookup.configs) : /\ mgrLookup.configs[i].namespace = Namespace
                                     /\ mgrLookup.configs[i].enabled}

\* What holds of aggregateServers: a backend that is not running contributes
\* nothing, and when every config carries its id and every tools/list
\* succeeds the list is the union of the discovery results of the enabled
\* backends of the namespace.
AggregateLawForGivenIds ==
  mgrLookup.pc = "aggregated" =>
    /\ (\A i \in Members : ~mgrLookup.runtime[i].running) => mgrLookup.tools = {}
    /\ (\A i \in 1..Len(mgrLookup.configs) :
          /\ mgrLookup.configs[i].id = mgrLookup.configs[i].key
          /\ mgrLookup.runtime[i].running => mgrLookup.runtime[i].lists)
         => mgrLookup.tools = UNION {Discovered(i) : i \in Members}

\* C33: the aggregated tool list of a namespace is made of what its running
\* backends reported: a backend that is not running or whose tools/list fails
\* contributes nothing, no substitute entry, and the other backends are still
\* aggregated.
C33_OnlyReportedTools ==
  mgrLookup.pc = "aggregated" =>
    mgrLookup.tools = UNION {Discovered(i) : i \in Members}

\* The tool is removed by the filters of the namespace.
Filtered(filters, tool) ==
  \/ ~filters.enabled
  \/ tool \in filters.toolBlacklist
  \/ filters.toolWhitelist # {} /\ tool \notin filters.toolWhitelist

\* C34: the tool list of the gateway for a namespace holds no tool that the
\* filters of the namespace remove (deny-listed, not allow-listed while the
\* allow-list is non-empty, or any tool of a disabled namespace), and a call
\* of such a tool finds no backend to be dispatched to.  Stated of the tools
\* the backends reported.
C34_GatewayAppliesNamespaceFilters ==
  /\ mgrLookup.pc = "aggregated" =>
       \A t \in mgrLookup.tools \cap UNION {Discovered(i) : i \in Members} :
          ~Filtered(mgrLookup.filters, t)
  /\ mgrLookup.pc = "done" /\ Filtered(mgrLookup.filters, mgrLookup.tool) =>
       mgrLookup.result = "null"

\* The instance created last under the id of instance i.
LatestOf(i) ==
  CHOOSE j \in 1..Len(instances) :
    /\ instances[j].key = instances[i].key
    /\ \A k \in 1..Len(instances) : instances[k].key = instances[i].key => k <= j

\* What the interleavings of createServer, stopServer and the process events
\* do not keep: as long as the instance created last under an id was not
\* stopped and its own process has not exited, the entry is stored and is
\* that instance.
LatestEntryKept ==
  \A i \in 1..Len(instances) :
    LET j == LatestOf(i)
    IN ~instances[j].stopped /\ instances[j].proc # "exited"
         => /\ MapHas(mgrServers, instances[j].key)
            /\ MapGet(mgrServers, instances[j].key).inst = j

\* C35: the runtime entry under an id belongs to the instance created last
\* under it: the exit of an earlier process with the same id, delivered
\* when a later instance is registered under the id, neither removes nor
\* alters the entry.
C35_StaleExitKeepsEntry ==
  [][\A i \in 1..Len(instances) :
       /\ instances[i].proc = "alive"
       /\ instances'[i].proc = "exited"
       /\ MapHas(mgrServers, instances[i].key)
       /\ MapGet(mgrServers, instances[i].key).inst # i
       => mgrServers' = mgrServers]_vars

\* What holds of the entry: it is never an instance other than the one
\* created last under the id.
EntryNeverAnEarlierInstance ==
  \A i \in 1..Len(instances) :
    MapHas(mgrServers, instances[i].key)
      => MapGet(mgrServers, instances[i].key).inst = LatestOf(i)

\* The step in which a request writes the last-accessed time back.
WriteBackStep == epRequest.pc = "resolved" /\ epRequest'.pc = "idle"

\* What holds when no call of the manager ran while the request waited: the
\* write changes nothing but the last-accessed time of the stored endpoint.
WriteBackOfSharedObject ==
  [][WriteBackStep /\ epRequest.shared
       => /\ MapHas(epTable, epRequest.endpoint.id)
          /\ epTable' = MapSet(epTable, [MapGet(epTable, epRequest.endpoint.id)
                                           EXCEPT !.lastAccessed = epOps])]_vars

Written(method) == {id \in MsgIds : calls[id].method = method /\ calls[id].written}

\* What holds of the order: a tools/list or tools/call message is sent only
\* after an initialize message was answered with a result.
NoRequestBeforeHandshakeReply ==
  \A id \in MsgIds :
    calls[id].registered /\ calls[id].method \in {"tools/list", "tools/call"}
      => \E h \in 1..(id - 1) : calls[h].method = "initialize" /\ calls[h].outcome = "resolved"

\* C37: at most one initialize message is sent on a connection, whatever
\* getTools and callTool calls arrive while the first handshake is
\* outstanding, and no tools/list or tools/call message is sent before a
\* handshake reply was received.
C37_OneHandshakePerConnection ==
  /\ Cardinality(Written("initialize")) <= 1
  /\ NoRequestBeforeHandshakeReply

\* What holds of createServer: the id it returns is the key under which the
\* instance and the config are stored when it returns at once.
CreateStoresUnderReturnedId ==
  lastCall.op = "create" /\ lastCall.config.type = "STDIO"
    => /\ MapHas(lastCall.after.servers, lastCall.key)
       /\ MapGet(lastCall.after.servers, lastCall.key).inst = lastCall.inst
       /\ MapHas(lastCall.after.configs, lastCall.key)

\* C38: the id createServer returns is the key of the runtime entry and the
\* id field of the config stored for getServersByNamespace, also for a config
\* submitted without id, so that a query made with the id of that config
\* finds the runtime entry.
C38_ReturnedIdIsConfigId ==
  /\ CreateStoresUnderReturnedId
  /\ lastCall.op = "create" /\ MapHas(lastCall.after.configs, lastCall.key)
       => LET config == MapGet(lastCall.after.configs, lastCall.key).config
          IN /\ config.id = lastCall.key
             /\ lastCall.config.type = "STDIO" => MapHas(lastCall.after.servers, config.id)

\* C39: a request that fails authentication leaves the rate-limit table as
\* it was; a request the rate limiter rejects neither counts nor moves the
\* reset time; and no request changes the entry of a key other than its own
\* (endpoint, identity).
C39_RejectionsLeaveRateTable ==
  [][reqCount' = reqCount + 1
       => /\ lastReq'.status \in {401, 429} => rateLimitStore' = rateLimitStore
          /\ \A k \in RateKeys :
               k # RateKey(endpoint.id, lastReq'.ip) => rateLimitStore'[k] = rateLimitStore[k]]_vars

\* A request was rejected by the rate limiter while both identities hold a
\* counter.
C39_Witness ==
  /\ lastReq.handled
  /\ lastReq.status = 429
  /\ \A k \in RateKeys : rateLimitStore[k].present

\* A request failed authentication while its identity holds a counter.
AuthFailureWithCounter ==
  /\ lastReq.handled
  /\ lastReq.status = 401
  /\ rateLimitStore[RateKey(endpoint.id, lastReq.ip)].present

\* C40: after any sequence of registerServer and unregisterServer calls,
\* every backend id in a member list of a namespace is a registered backend,
\* and validateNamespaceConfiguration reports no missing backend.
C40_MembersAreRegistered ==
  /\ \A i \in 1..Len(nsTable) : MissingIn(nsTable[i].servers, regServers) = {}
  /\ lastAdmin.op = "validate" =>
       \A i \in 1..Len(lastAdmin.errors) : lastAdmin.errors[i].kind # "server_missing"

\* What holds while every backend is registered under a namespace that
\* exists and under one namespace only: the members are registered.
MembersRegisteredUnderOneNamespace ==
  [][(\A i \in 1..Len(nsTable) : MissingIn(nsTable[i].servers, regServers) = {})
       /\ (\A j \in 1..Len(regServers) :
             \A i \in 1..Len(nsTable) :
               Has(nsTable[i].servers, regServers[j].id)
                 => nsTable[i].id = regServers[j].namespace)
       /\ lastAdmin'.op = "unregisterServer"
       => \A i \in 1..Len(nsTable') : MissingIn(nsTable'[i].servers, regServers') = {}]_vars

====
